---- MODULE Spec2Model ----
(***************************************************************************)
(* Background task queue of the personalize extension.                     *)
(*                                                                         *)
(* The model follows the background script of the last evolution stage     *)
(* (src/extension/options/options.js, lines 198-1738); the queue code of   *)
(* the two earlier stages (src/extension/background/background.js and      *)
(* src/unnamed/part_003) is the same text.                                 *)
(*                                                                         *)
(* One step of the model is one turn of the JavaScript event loop: the     *)
(* synchronous code of an event handler or of a resumed await, followed by *)
(* the microtasks it leaves behind.  The suspension points are the awaits  *)
(* on browser storage, IndexedDB, the history API and the network.         *)
(***************************************************************************)
EXTENDS Integers, Sequences, FiniteSets, TLC

(***************************************************************************)
(* Bounds of the model: the tasks that arrive (MaxFairTasks in SpecFair),   *)
(* the restarts, the mirror writes in flight and the rejected mirror       *)
(* writes.                                                                 *)
(***************************************************************************)
MaxTasks == 3
MaxFairTasks == 2
MaxAnalysisTasks == 1
MaxRestarts == 1
MaxWrites == 2
MaxWriteFailures == 1

(***************************************************************************)
(* Program constants.                                                      *)
(***************************************************************************)
VisitThreshold == 3
MetaStringLimit == 800
MetaItemLimit == 200
MetaArrayLimit == 20
TextSampleLimit == 2000
SummaryLimit == 400

Origins == {"https://a.test", "https://b.test"}

DATABASE_VERSION == 1
PAGE_FEATURE_STORE == "pageFeatures"
INTERACTION_STORE == "interactionLogs"
StoreNames == {PAGE_FEATURE_STORE, INTERACTION_STORE}

\* the indexes onupgradeneeded creates
PageFeatureIndexes == {"byOrigin", "byUrl", "bySource", "byCategory"}
InteractionIndexes == {"byOrigin", "byUrl", "byType", "byTimestamp"}

(***************************************************************************)
(* The schema of a database: for each store name whether db.objectStoreNames *)
(* contains it, and the names of its indexes.                              *)
(***************************************************************************)
NoStore == [exists |-> FALSE, indexes |-> {}]
ObjectStore(indexes) == [exists |-> TRUE, indexes |-> indexes]
NoStores == [n \in StoreNames |-> NoStore]
BothStores ==
  [n \in StoreNames |->
     IF n = PAGE_FEATURE_STORE THEN ObjectStore(PageFeatureIndexes)
                               ELSE ObjectStore(InteractionIndexes)]

\* Mutant of onupgradeneeded: both stores are set up anew whatever exists.
onupgradeneeded_Recreates(stores) == BothStores

\* request.onupgradeneeded: a store that db.objectStoreNames does not contain
\* is created with its four indexes
onupgradeneeded(stores) ==
  LET withPages ==
        IF ~stores[PAGE_FEATURE_STORE].exists
          THEN [stores EXCEPT ![PAGE_FEATURE_STORE] = ObjectStore(PageFeatureIndexes)]
          ELSE stores
  IN IF ~withPages[INTERACTION_STORE].exists
       THEN [withPages EXCEPT ![INTERACTION_STORE] = ObjectStore(InteractionIndexes)]
       ELSE withPages

\* the request of indexedDB.open: state is "none", "opening" or "upgraded";
\* stores is the schema in its versionchange transaction
OpenRequest(state, stores) == [state |-> state, stores |-> stores]
NoRequest == OpenRequest("none", NoStores)

\* Mutant of openDatabase: a promise that was rejected is not reused.
openDatabase_RetriesAfterFailure(promise, count) ==
  IF promise \in {"pending", "fulfilled"}
    THEN [dbPromise |-> promise, opens |-> count, request |-> FALSE]
    ELSE [dbPromise |-> "pending", opens |-> count + 1, request |-> TRUE]

\* function openDatabase: if (dbPromise) return dbPromise; otherwise
\* indexedDB.open is called (request: a new request is made)
openDatabase(promise, count) ==
  IF promise # "unset"
    THEN [dbPromise |-> promise, opens |-> count, request |-> FALSE]
    ELSE [dbPromise |-> "pending", opens |-> count + 1, request |-> TRUE]

(***************************************************************************)
(* JavaScript values as they arrive in a message: kind is the type (typeof, *)
(* with "array" and "null" told apart from "object"), text the characters  *)
(* of a string, num the value of a number (text is <<"NaN">> or            *)
(* <<"Infinity">> for a number that is not finite) or 1/0 for a boolean,   *)
(* items the elements of an array.                                         *)
(***************************************************************************)
JsValue(kind, text, num, items) == [kind |-> kind, text |-> text, num |-> num, items |-> items]
Absent == JsValue("undefined", <<>>, 0, <<>>)
JsNull == JsValue("null", <<>>, 0, <<>>)
JsObject == JsValue("object", <<>>, 0, <<>>)
JsString(text) == JsValue("string", text, 0, <<>>)
JsNumber(n) == JsValue("number", <<>>, n, <<>>)
JsNaN == JsValue("number", <<"NaN">>, 0, <<>>)
JsInfinity == JsValue("number", <<"Infinity">>, 0, <<>>)
JsBoolean(b) == JsValue("boolean", <<>>, IF b THEN 1 ELSE 0, <<>>)
JsArray(items) == JsValue("array", <<>>, 0, items)

\* A string of n characters.
Chars(n) == [i \in 1..n |-> IF i % 2 = 1 THEN "a" ELSE "b"]
Ellipsis == <<".", ".", ".">>

\* JavaScript truthiness (the left operand of ||)
Truthy(v) ==
  CASE v.kind = "string" -> Len(v.text) > 0
    [] v.kind = "number" -> v.num # 0 \/ v.text = <<"Infinity">>
    [] v.kind = "boolean" -> v.num = 1
    [] v.kind \in {"array", "object"} -> TRUE
    [] OTHER -> FALSE

\* Number.isFinite on a value of type number
IsFiniteNumber(v) == v.kind = "number" /\ v.text = <<>>

FallbackColor == JsString(<<"#", "f", "f", "f", "6", "d", "5">>)
NoPreference == Absent

(***************************************************************************)
(* The meta object of a user action: the values of the keys of MetaKeys    *)
(* (Absent: no such key); isObject is FALSE for a meta that is missing or  *)
(* not an object.                                                          *)
(***************************************************************************)
MetaKeys == {"preferredColor", "snippet"}
NoEntries == [k \in MetaKeys |-> Absent]
Meta(entries) == [isObject |-> TRUE, entries |-> entries]
NoMeta == [isObject |-> FALSE, entries |-> NoEntries]

\* Mutant of truncateText: slices to the limit instead of the limit less three.
truncateText_SliceToLimit(value, limit) ==
  IF value.kind # "string" THEN value
  ELSE IF Len(value.text) <= limit THEN value
  ELSE JsString(SubSeq(value.text, 1, limit) \o Ellipsis)


\* function truncateText(value, limit)
truncateText(value, limit) ==
  IF value.kind # "string" THEN value
  ELSE IF Len(value.text) <= limit THEN value
  ELSE JsString(SubSeq(value.text, 1, limit - 3) \o Ellipsis)

\* Mutant of sanitizeItems: slice(1, 21) instead of slice(0, 20).
sanitizeItems_SkipsFirst(items) ==
  [i \in 1..(IF Len(items) - 1 < MetaArrayLimit
               THEN (IF Len(items) = 0 THEN 0 ELSE Len(items) - 1)
               ELSE MetaArrayLimit) |->
     IF items[i + 1].kind = "string" THEN truncateText(items[i + 1], MetaItemLimit)
                                     ELSE items[i + 1]]

\* sanitizeMeta: value.slice(0, 20).map(item => string ? truncateText(item, 200) : item)
sanitizeItems(items) ==
  [i \in 1..(IF Len(items) < MetaArrayLimit THEN Len(items) ELSE MetaArrayLimit) |->
     IF items[i].kind = "string" THEN truncateText(items[i], MetaItemLimit) ELSE items[i]]

\* sanitizeMeta: what is copied for one entry of meta (Absent: nothing)
sanitizeEntry(value) ==
  CASE value.kind = "string" -> truncateText(value, MetaStringLimit)
    [] value.kind \in {"number", "boolean"} -> value
    [] value.kind = "array" -> JsArray(sanitizeItems(value.items))
    [] OTHER -> Absent

\* function sanitizeMeta(meta)
sanitizeMeta(meta) ==
  IF ~meta.isObject THEN Meta(NoEntries)
  ELSE Meta([k \in MetaKeys |-> sanitizeEntry(meta.entries[k])])

VARIABLES
  \* the process (lost at a restart)
  taskQueue,        \* const taskQueue = []
  processing,       \* let processing = false
  handlers,         \* the handler invocations suspended at an await
  startup,          \* the replay IIFE: "reading" while its storage.get is pending
  \* browser storage and IndexedDB (survive a restart)
  mirror,           \* storage.local[ACTION_QUEUE_KEY]
  writes,           \* calls on storage.local[ACTION_QUEUE_KEY] not yet served, in issue order
  pageStats,        \* storage.local[PAGE_STATS_KEY]: origin -> visits (0: no entry)
  lastInteraction,  \* storage.local[PAGE_STATS_KEY]: origin -> lastInteraction.meta
  pagePreferences,  \* storage.local[PAGE_PREFERENCES_KEY]: origin -> highlightColor
  interactionLogs,  \* object store interactionLogs
  pageFeatures,     \* object store pageFeatures
  \* history of the run (not program state)
  nextId,           \* identity of the next task object created
  appended,         \* tasks pushed on taskQueue in this process lifetime, in order
  dispatched,       \* tasks handed to a handler in this process lifetime, in order
  dispatchLog,      \* ids handed to a handler in any lifetime, in order
  failed,           \* ids whose handler threw
  restarts,         \* number of restarts so far
  writeFailures,    \* number of rejected mirror writes so far
  \* the message listener and the logger
  debugMode,        \* let debugMode = false (logger)
  debugStored,      \* storage.local[DEBUG_MODE_KEY] (Absent: never set)
  inbox,            \* storage calls of the listener and the logger not yet served, and
                    \* the replies and change notifications not yet delivered, in order
  responses,        \* history: the answers given with sendResponse in this lifetime
  notified,         \* history: the messages whose change notification was delivered
  queries,          \* history: number of messages received that carry no task
  \* the script the manifest names as the service worker
  script,           \* "options": options.js; "background": background.js
  \* IndexedDB (survives a restart)
  dbVersion,        \* version of the stored database (0: there is none)
  objectStores,     \* db.objectStoreNames and the indexes of each store
  \* the connection (lost at a restart)
  dbPromise,        \* let dbPromise: "unset", or the state of the promise
  request,          \* the request of indexedDB.open and its versionchange transaction
  opens,            \* history: calls of indexedDB.open in this process lifetime
  operations,       \* the calls of withStore: where each one stands
  \* the content script of one page (content-script.js)
  debugState,       \* debugState.enabled
  debugIndicator,   \* TRUE: the indicator element exists and is attached
  documentBody,     \* TRUE: document.body exists
  initialized,      \* initializeDebugState: "pending" until its response has arrived
  pageChanges       \* storage.onChanged events on their way to the page: the newValue

vars == <<taskQueue, processing, handlers, startup, mirror, writes, pageStats, lastInteraction,
          pagePreferences, interactionLogs, pageFeatures, nextId, appended,
          dispatched, dispatchLog, failed, restarts, writeFailures,
          debugMode, debugStored, inbox, responses, notified, queries, script,
          dbVersion, objectStores, dbPromise, request, opens, operations,
          debugState, debugIndicator, documentBody, initialized, pageChanges>>

\* the content script
contentVars == <<debugState, debugIndicator, documentBody, initialized, pageChanges>>

\* the database and the connection to it
databaseVars == <<dbVersion, objectStores, dbPromise, request, opens, operations>>

\* what neither the queue nor the message listener changes
otherVars == <<script, databaseVars, contentVars>>

\* the logger's flag and the stored one
debugVars == <<debugMode, debugStored, inbox, notified>>

\* what only the message listener changes
coreListenerVars == <<debugVars, responses, queries>>
listenerVars == <<coreListenerVars, otherVars>>

(***************************************************************************)
(* Messages and their answers.  number tells the messages of a run apart:   *)
(* the id of the task a message leaves, or the count of the messages        *)
(* without task.                                                            *)
(***************************************************************************)
Message(type, number, url, enabled) ==
  [type |-> type, number |-> number, url |-> url, enabled |-> enabled]

NoMessage == Message("", 0, "", FALSE)

\* a call on storage.local issued for a message (or at startup), and later
\* its reply or change notification on the way to the script
StorageCall(op, message) == [op |-> op, message |-> message]

\* the snapshot of buildDiagnosticsSnapshot, without its timestamp
Snapshot(queueLength, isProcessing, isDebug, trackedPages, pagesWithPreferences) ==
  [queueLength |-> queueLength, processing |-> isProcessing, debugMode |-> isDebug,
   trackedPages |-> trackedPages, pagesWithPreferences |-> pagesWithPreferences]

\* an answer that carries no snapshot
NoSnapshot == Snapshot(0, FALSE, FALSE, 0, 0)

\* sendResponse({status}), sendResponse({preferences}), sendResponse({enabled})
Response(message, status, preferences, enabled) ==
  [message |-> message, status |-> status, preferences |-> preferences, enabled |-> enabled,
   snapshot |-> NoSnapshot]

\* sendResponse({snapshot})
SnapshotResponse(message, snapshot) ==
  [message |-> message, status |-> "", preferences |-> Absent, enabled |-> Absent,
   snapshot |-> snapshot]

(***************************************************************************)
(* Tasks.  A task is {type, payload}; id is the identity of the object.    *)
(***************************************************************************)
\* The context of a page analysis: the four counters, or no object at all.
ContextKeys == {"characterCount", "paragraphCount", "headingCount", "imageCount"}
Context(counters) == [isObject |-> TRUE, counters |-> counters]
NoContext == [isObject |-> FALSE, counters |-> [k \in ContextKeys |-> Absent]]

\* A payload: url and type are "" when they are missing, blank or no string;
\* id is "" when the payload carries none.
Payload(url, type, meta, source, id, context) ==
  [url |-> url, type |-> type, meta |-> meta, source |-> source, id |-> id,
   context |-> context, visualTrend |-> <<>>]
UserAction(url, type, meta) == Payload(url, type, meta, "", "", NoContext)
PageAnalysis(url, source, id, context) == Payload(url, "", NoMeta, source, id, context)

NoPayload == Payload("", "", NoMeta, "", "", NoContext)

Color112233 == JsString(<<"#", "1", "1", "2", "2", "3", "3">>)
PreferredColor(value) == Meta([NoEntries EXCEPT !["preferredColor"] = value])
Snippet(value) == Meta([NoEntries EXCEPT !["snippet"] = value])

\* What the content script sends: a click on a.test with a preferred colour, a
\* click on b.test without one, and a message without an action type.
UserActionPayloads ==
  {UserAction("https://a.test", "click", PreferredColor(Color112233)),
   UserAction("https://b.test", "click", Meta(NoEntries)),
   UserAction("https://a.test", "", Meta(NoEntries))}

\* The page analysis the content script sends (it carries no id).
LiveCounters ==
  [k \in ContextKeys |-> IF k = "imageCount" THEN JsNumber(0) ELSE JsNumber(2)]
PageAnalysisPayloads ==
  {PageAnalysis("https://b.test", "live", "", Context(LiveCounters))}

Task(id, type, payload) == [id |-> id, type |-> type, payload |-> payload]

EmptyStats == [o \in Origins |-> 0]
NoInteractions == [o \in Origins |-> NoMeta]
EmptyPreferences == [o \in Origins |-> NoPreference]
NoBranches == [o \in Origins |-> "none"]

(***************************************************************************)
(* The part of the state the queue code works on, as one record, so that   *)
(* enqueueTask and processQueue can be composed within one step.           *)
(***************************************************************************)
QueueState ==
  [taskQueue |-> taskQueue, processing |-> processing, handlers |-> handlers,
   writes |-> writes, appended |-> appended, dispatched |-> dispatched,
   dispatchLog |-> dispatchLog, failed |-> failed, script |-> script]

\* Mutant of validateUserActionPayload: the type is not required.
validateUserActionPayload_UrlOnly(payload) == payload.url # ""

\* function validateUserActionPayload: url and type must be non-empty strings
validateUserActionPayload(payload) == payload.url # "" /\ payload.type # ""

\* function validatePageAnalysisPayload: url must be a non-empty string
validatePageAnalysisPayload(payload) == payload.url # ""

\* Mutant of StartHandler: a task of unknown type is handled as a user action.
StartHandler_UnknownAsUserAction(task) ==
  [task |-> task,
   pc |-> CASE task.type = "USER_ACTION" ->
                 IF validateUserActionPayload(task.payload) THEN "ua_get" ELSE "returned"
            [] task.type = "SYNC_HISTORY" -> "hs_search"
            [] task.type = "PAGE_ANALYSIS" ->
                 IF validatePageAnalysisPayload(task.payload) THEN "pa_key" ELSE "returned"
            [] OTHER -> "ua_get",
   stats |-> EmptyStats,
   interactions |-> NoInteractions,
   preferences |-> EmptyPreferences,
   summary |-> <<>>,
   enrichment |-> "",
   found |-> <<>>,
   entries |-> [o \in Origins |-> [url |-> "", lastVisitTime |-> 0, visit |-> 0]],
   branches |-> NoBranches]

\* The invocation of the handler for a task, run up to its first await.
\* handleUserAction returns at once for an invalid payload ("returned": the
\* await in processQueue resumes in a microtask); otherwise it is suspended
\* on storage.local.get.  handleHistorySync is suspended on history.search,
\* handlePageAnalysis on the storage.local.get of loadOpenAiApiKey.
StartHandler(task) ==
  [task |-> task,
   pc |-> CASE task.type = "USER_ACTION" ->
                 IF validateUserActionPayload(task.payload) THEN "ua_get" ELSE "returned"
            [] task.type = "SYNC_HISTORY" -> "hs_search"
            [] task.type = "PAGE_ANALYSIS" ->
                 IF validatePageAnalysisPayload(task.payload) THEN "pa_key" ELSE "returned"
            [] OTHER -> "returned",
   stats |-> EmptyStats,
   interactions |-> NoInteractions,
   preferences |-> EmptyPreferences,
   summary |-> <<>>,
   enrichment |-> "",
   found |-> <<>>,
   entries |-> [o \in Origins |-> [url |-> "", lastVisitTime |-> 0, visit |-> 0]],
   branches |-> NoBranches]

\* Calls on the queue key of browser storage, served in the order issued:
\* the set of persistQueueSnapshot and the get of the startup IIFE of
\* process lifetime life.
SetCall(value) == [op |-> "set", value |-> value, life |-> 0]
GetCall(life) == [op |-> "get", value |-> <<>>, life |-> life]

\* background.js, handleHistorySync: its get and its set({queue: []}) on the
\* queue key; life holds the id of the task whose handler issued the call.
SyncGetCall(id) == [op |-> "sync_get", value |-> <<>>, life |-> id]
SyncSetCall(id) == [op |-> "sync_set", value |-> <<>>, life |-> id]

\* background.js, case 'SYNC_HISTORY': handleHistorySync is suspended on its
\* storage.local.get of the queue key.
StartBackgroundSync(task) == [StartHandler(task) EXCEPT !.pc = "bg_get"]

\* function persistQueueSnapshot: storage.local.set({queue: [...taskQueue]}),
\* not awaited.
persistQueueSnapshot(s) == [s EXCEPT !.writes = Append(@, SetCall(s.taskQueue))]

\* Mutant of processQueue: takes the task pushed last (pop instead of shift).
processQueue_TakesLast(s) ==
  IF s.processing \/ Len(s.taskQueue) = 0
    THEN s
    ELSE LET task == s.taskQueue[Len(s.taskQueue)]
             s1 == [s EXCEPT !.processing = TRUE,
                             !.taskQueue = SubSeq(@, 1, Len(@) - 1)]
             s2 == persistQueueSnapshot(s1)
         IN [s2 EXCEPT !.handlers = @ \cup {StartHandler(task)},
                       !.dispatched = Append(@, task),
                       !.dispatchLog = Append(@, task.id)]

\* Mutant of processQueue: does not look at the processing flag.
processQueue_NoGuard(s) ==
  IF Len(s.taskQueue) = 0
    THEN s
    ELSE LET task == Head(s.taskQueue)
             s1 == [s EXCEPT !.processing = TRUE, !.taskQueue = Tail(@)]
             s2 == persistQueueSnapshot(s1)
         IN [s2 EXCEPT !.handlers = @ \cup {StartHandler(task)},
                       !.dispatched = Append(@, task),
                       !.dispatchLog = Append(@, task.id)]

\* function processQueue, up to the await on the handler.
processQueue(s) ==
  IF s.processing \/ Len(s.taskQueue) = 0
    THEN s
    ELSE LET task == Head(s.taskQueue)
             s1 == [s EXCEPT !.processing = TRUE, !.taskQueue = Tail(@)]
             s2 == persistQueueSnapshot(s1)
         IN IF s.script = "background" /\ task.type = "SYNC_HISTORY"
              THEN [s2 EXCEPT !.handlers = @ \cup {StartBackgroundSync(task)},
                              !.writes = Append(@, SyncGetCall(task.id)),
                              !.dispatched = Append(@, task),
                              !.dispatchLog = Append(@, task.id)]
              ELSE [s2 EXCEPT !.handlers = @ \cup {StartHandler(task)},
                              !.dispatched = Append(@, task),
                              !.dispatchLog = Append(@, task.id)]

\* Mutant of enqueueTask: pushes the task without starting the queue.
enqueueTask_NoDrain(s, task, persist) ==
  LET s1 == [s EXCEPT !.taskQueue = Append(@, task), !.appended = Append(@, task)]
  IN IF persist THEN persistQueueSnapshot(s1) ELSE s1

\* Mutant of enqueueTask: takes the snapshot before the push.
enqueueTask_PersistsFirst(s, task, persist) ==
  LET s1 == IF persist THEN persistQueueSnapshot(s) ELSE s
      s2 == [s1 EXCEPT !.taskQueue = Append(@, task), !.appended = Append(@, task)]
  IN processQueue(s2)

\* Mutant of enqueueTask: a SYNC_HISTORY task is dropped while another one is
\* pending or being processed.
enqueueTask_Deduplicates(s, task, persist) ==
  IF /\ task.type = "SYNC_HISTORY"
     /\ \/ \E i \in 1..Len(s.taskQueue) : s.taskQueue[i].type = "SYNC_HISTORY"
        \/ \E h \in s.handlers : h.task.type = "SYNC_HISTORY"
    THEN s
    ELSE LET s1 == [s EXCEPT !.taskQueue = Append(@, task), !.appended = Append(@, task)]
             s2 == IF persist THEN persistQueueSnapshot(s1) ELSE s1
         IN processQueue(s2)

\* function enqueueTask(task, options)
enqueueTask(s, task, persist) ==
  LET s1 == [s EXCEPT !.taskQueue = Append(@, task), !.appended = Append(@, task)]
      s2 == IF persist THEN persistQueueSnapshot(s1) ELSE s1
  IN processQueue(s2)

Settled(h) == h.pc \in {"returned", "threw"}

\* Mutant of finishTask: no finally; after a throw the flag stays set and the
\* queue is not looked at again.
finishTask_NoFinally(s, h) ==
  IF h.pc = "threw"
    THEN [s EXCEPT !.handlers = @ \ {h}, !.failed = @ \cup {h.task.id}]
    ELSE LET s1 == [s EXCEPT !.processing = FALSE, !.handlers = @ \ {h}]
         IN IF Len(s1.taskQueue) > 0 THEN processQueue(s1) ELSE s1

\* Mutant of finishTask: clears the flag but does not call processQueue again.
finishTask_NoNextTask(s, h) ==
  [s EXCEPT !.processing = FALSE,
            !.handlers = @ \ {h},
            !.failed = IF h.pc = "threw" THEN @ \cup {h.task.id} ELSE @]

\* processQueue after the await: catch (log only) and the finally block.
finishTask(s, h) ==
  LET s1 == [s EXCEPT !.processing = FALSE,
                      !.handlers = @ \ {h},
                      !.failed = IF h.pc = "threw" THEN @ \cup {h.task.id} ELSE @]
  IN IF Len(s1.taskQueue) > 0 THEN processQueue(s1) ELSE s1

\* The microtasks left at the end of a turn: every handler that has settled
\* resumes its processQueue invocation.
RECURSIVE runMicrotasks(_)
runMicrotasks(s) ==
  IF \E h \in s.handlers : Settled(h)
    THEN runMicrotasks(finishTask(s, CHOOSE h \in s.handlers : Settled(h)))
    ELSE s

\* the startup IIFE after its await: for (item of queued) enqueueTask(item, {persist: false})
RECURSIVE replayQueue(_, _)
replayQueue(s, items) ==
  IF items = <<>> THEN s
  ELSE replayQueue(enqueueTask(s, Head(items), FALSE), Tail(items))

\* The end of a turn: the queue state after the microtasks becomes the state.
Commit(s0) ==
  LET s == runMicrotasks(s0)
  IN /\ taskQueue' = s.taskQueue
     /\ processing' = s.processing
     /\ handlers' = s.handlers
     /\ writes' = s.writes
     /\ appended' = s.appended
     /\ dispatched' = s.dispatched
     /\ dispatchLog' = s.dispatchLog
     /\ failed' = s.failed

\* the database as an earlier run of the extension left it
DatabaseInPlace == dbVersion = DATABASE_VERSION /\ objectStores = BothStores

\* the content script at its start: debugState = {enabled: false}, no
\* indicator, initializeDebugState() called
ContentScriptStarts ==
  /\ debugState = FALSE
  /\ debugIndicator = FALSE
  /\ initialized = "pending"
  /\ pageChanges = <<>>

\* the connection of a process that has not called openDatabase
Unopened ==
  /\ dbPromise = "unset"
  /\ request = NoRequest
  /\ opens = 0
  /\ operations = <<>>

Init ==
  /\ taskQueue = <<>>
  /\ processing = FALSE
  /\ handlers = {}
  /\ startup = "reading"
  /\ mirror = <<>>
  /\ writes = <<GetCall(0)>>
  /\ pageStats = EmptyStats
  /\ lastInteraction = NoInteractions
  /\ pagePreferences = EmptyPreferences
  /\ interactionLogs = {}
  /\ pageFeatures = {}
  /\ nextId = 1
  /\ appended = <<>>
  /\ dispatched = <<>>
  /\ dispatchLog = <<>>
  /\ failed = {}
  /\ restarts = 0
  /\ writeFailures = 0
  /\ debugMode = FALSE
  /\ debugStored = Absent
  /\ inbox = <<StorageCall("get_debug", NoMessage)>>
  /\ responses = <<>>
  /\ notified = {}
  /\ queries = 0
  /\ script = "options"
  /\ DatabaseInPlace
  /\ Unopened
  /\ ContentScriptStarts
  /\ documentBody = TRUE

\* Room for the storage writes one turn can issue.
PendingSets == {i \in 1..Len(writes) : writes[i].op = "set"}
RoomForWrites == Cardinality(PendingSets) + 2 <= MaxWrites

(***************************************************************************)
(* Events from outside.                                                    *)
(***************************************************************************)
\* Mutant of acknowledge: only a message whose payload is valid is answered.
acknowledge_ValidOnly(answers, task) ==
  IF \/ task.type = "USER_ACTION" /\ validateUserActionPayload(task.payload)
     \/ task.type = "PAGE_ANALYSIS" /\ validatePageAnalysisPayload(task.payload)
    THEN Append(answers, Response(Message(task.type, task.id, task.payload.url, FALSE),
                                  "queued", Absent, Absent))
    ELSE answers

\* sendResponse({ status: 'queued' })
acknowledge(answers, task) ==
  Append(answers, Response(Message(task.type, task.id, task.payload.url, FALSE),
                           "queued", Absent, Absent))

\* runtime.onMessage: enqueueTask({type, payload}); sendResponse({status: 'queued'})
OnMessage(type, payload) ==
  /\ RoomForWrites
  /\ Commit(enqueueTask(QueueState, Task(nextId, type, payload), TRUE))
  /\ responses' = acknowledge(responses, Task(nextId, type, payload))
  /\ nextId' = nextId + 1
  /\ UNCHANGED <<debugVars, queries, otherVars, startup, mirror, pageStats, lastInteraction,
                 pagePreferences, interactionLogs, pageFeatures, restarts, writeFailures>>

\* runtime.onMessage, case 'USER_ACTION'
OnMessageUserAction == \E payload \in UserActionPayloads : OnMessage("USER_ACTION", payload)

\* runtime.onMessage, case 'PAGE_ANALYSIS'
OnMessagePageAnalysis ==
  \E payload \in PageAnalysisPayloads : OnMessage("PAGE_ANALYSIS", payload)

\* alarms.onAlarm 'history-sync', runtime.onInstalled, runtime.onStartup
EnqueueSyncHistory ==
  /\ Commit(enqueueTask(QueueState, Task(nextId, "SYNC_HISTORY", NoPayload), TRUE))
  /\ nextId' = nextId + 1
  /\ UNCHANGED <<listenerVars, startup, mirror, pageStats, lastInteraction, pagePreferences, interactionLogs,
                 pageFeatures, restarts, writeFailures>>

OnAlarm == RoomForWrites /\ EnqueueSyncHistory

(***************************************************************************)
(* Browser storage serves the calls on the queue key in the order issued.  *)
(***************************************************************************)
\* the startup IIFE: its storage.local.get resolves with the mirror as it is
\* when the call is served, and the mirror is replayed.
StartupReplay ==
  /\ writes # <<>>
  /\ Head(writes) = GetCall(restarts)
  /\ startup = "reading"
  /\ startup' = "done"
  /\ Commit(replayQueue([QueueState EXCEPT !.writes = Tail(@)], mirror))
  /\ UNCHANGED <<listenerVars, mirror, pageStats, lastInteraction, pagePreferences, interactionLogs, pageFeatures,
                 nextId, restarts, writeFailures>>

\* the startup IIFE: its storage.local.get rejects (nothing catches it), or
\* the process that issued it is gone; nothing is replayed.
StartupReadLost ==
  /\ writes # <<>>
  /\ Head(writes).op = "get"
  /\ writes' = Tail(writes)
  /\ startup' = IF Head(writes).life = restarts THEN "done" ELSE startup
  /\ UNCHANGED <<listenerVars, taskQueue, processing, handlers, mirror, pageStats, lastInteraction,
                 pagePreferences, interactionLogs, pageFeatures, nextId, appended,
                 dispatched, dispatchLog, failed, restarts, writeFailures>>

\* a set of persistQueueSnapshot resolves: it replaces the whole mirror
MirrorWriteLands ==
  /\ writes # <<>>
  /\ Head(writes).op = "set"
  /\ mirror' = Head(writes).value
  /\ writes' = Tail(writes)
  /\ UNCHANGED <<listenerVars, taskQueue, processing, handlers, startup, pageStats, lastInteraction, pagePreferences,
                 interactionLogs, pageFeatures, nextId, appended, dispatched,
                 dispatchLog, failed, restarts, writeFailures>>

\* a set of persistQueueSnapshot rejects: its .catch logs the error
MirrorWriteFails ==
  /\ writes # <<>>
  /\ Head(writes).op = "set"
  /\ writeFailures < MaxWriteFailures
  /\ writeFailures' = writeFailures + 1
  /\ writes' = Tail(writes)
  /\ UNCHANGED <<listenerVars, taskQueue, processing, handlers, startup, mirror, pageStats, lastInteraction,
                 pagePreferences, interactionLogs, pageFeatures, nextId, appended,
                 dispatched, dispatchLog, failed, restarts>>

(***************************************************************************)
(* handleUserAction                                                        *)
(***************************************************************************)
\* Property names that every object inherits from Object.prototype: for such
\* a pageKey stats[pageKey] is an inherited function, so (!stats[pageKey]) is
\* false, no entry is created, and visits and lastInteraction are assigned
\* to that function and never stored.
InheritedKeys == {"constructor"}

\* Mutant of countVisit: builds a map with the entry of this page only.
countVisit_OwnEntryOnly(stats, pageKey) ==
  [o \in Origins |-> IF o = pageKey THEN stats[o] + 1 ELSE 0]

\* stats[pageKey].visits += 1 on the copy read from storage
countVisit(stats, pageKey) ==
  IF pageKey \in InheritedKeys THEN stats ELSE [stats EXCEPT ![pageKey] = @ + 1]

\* highlightColor: meta?.preferredColor || '#fff6d5', on the sanitized meta
highlightColor(meta) ==
  IF Truthy(meta.entries["preferredColor"])
    THEN meta.entries["preferredColor"]
    ELSE FallbackColor

\* Mutant of derivePreference: the entry is written one visit early.
derivePreference_BeforeThreshold(preferences, stats, pageKey, payload) ==
  IF stats[pageKey] >= VisitThreshold - 1
    THEN [preferences EXCEPT ![pageKey] = highlightColor(sanitizeMeta(payload.meta))]
    ELSE preferences

\* Mutant of derivePreference: builds a map with the entry of this page only.
derivePreference_OwnEntryOnly(preferences, stats, pageKey, payload) ==
  [o \in Origins |->
     IF o = pageKey /\ stats[pageKey] >= VisitThreshold
       THEN highlightColor(sanitizeMeta(payload.meta))
       ELSE IF o = pageKey THEN preferences[o] ELSE NoPreference]

\* Mutant of derivePreference: visits > 3 instead of visits >= 3.
derivePreference_AfterThreshold(preferences, stats, pageKey, payload) ==
  IF stats[pageKey] > VisitThreshold
    THEN [preferences EXCEPT ![pageKey] = highlightColor(sanitizeMeta(payload.meta))]
    ELSE preferences

\* if (visits >= 3) preferences[pageKey] = {highlightColor: meta?.preferredColor || '#fff6d5'}
\* with meta the sanitized meta of validateUserActionPayload
derivePreference(preferences, stats, pageKey, payload) ==
  IF pageKey \notin InheritedKeys /\ stats[pageKey] >= VisitThreshold
    THEN [preferences EXCEPT ![pageKey] = highlightColor(sanitizeMeta(payload.meta))]
    ELSE preferences

\* stats[pageKey].lastInteraction = {type, meta: sanitizeMeta(meta), timestamp}
\* with meta the sanitized meta of validateUserActionPayload
recordLastInteraction(interactions, pageKey, payload) ==
  IF pageKey \in InheritedKeys THEN interactions
  ELSE [interactions EXCEPT ![pageKey] = sanitizeMeta(sanitizeMeta(payload.meta))]

\* A handler h goes on as g; the turn ends with the microtasks.
Resume(h, g) == Commit([QueueState EXCEPT !.handlers = (@ \ {h}) \cup {g}])

\* storage.local.get resolves: the handler works on its own copy of both maps
\* and calls storage.local.set with them.
UserActionRead(h) ==
  /\ h.pc = "ua_get"
  /\ LET pageKey == h.task.payload.url
         stats == countVisit(pageStats, pageKey)
     IN Resume(h, [h EXCEPT !.pc = "ua_set",
                            !.stats = stats,
                            !.interactions =
                              recordLastInteraction(lastInteraction, pageKey, h.task.payload),
                            !.preferences =
                              derivePreference(pagePreferences, stats, pageKey, h.task.payload)])
  /\ UNCHANGED <<listenerVars, startup, mirror, pageStats, lastInteraction, pagePreferences, interactionLogs,
                 pageFeatures, nextId, restarts, writeFailures>>

\* storage.local.set resolves: both maps are replaced in one write; the
\* handler goes on to recordInteraction -> saveInteractionLog.
UserActionWrite(h) ==
  /\ h.pc = "ua_set"
  /\ pageStats' = h.stats
  /\ lastInteraction' = h.interactions
  /\ pagePreferences' = h.preferences
  /\ Resume(h, [h EXCEPT !.pc = "ua_log"])
  /\ UNCHANGED <<listenerVars, startup, mirror, interactionLogs, pageFeatures, nextId, restarts, writeFailures>>

\* Mutant of generateId: the same id at every call.
generateId_Constant(store) == 1

\* function generateId: an id no stored record has
generateId(store) == Cardinality(store) + 1

\* store.put replaces the record with the same id
putRecord(store, record) == {r \in store : r.id # record.id} \cup {record}

\* recordInteraction -> saveInteractionLog: id = generateId(), meta =
\* sanitizeMeta(meta) of the meta sanitized by validateUserActionPayload.
\* task is the task whose handler stores the record (history of the run).
saveInteractionLog(store, task) ==
  putRecord(store, [id |-> generateId(store),
                    origin |-> task.payload.url,
                    meta |-> sanitizeMeta(sanitizeMeta(task.payload.meta)),
                    task |-> task.id])

\* saveInteractionLog: the put commits and handleUserAction returns.
UserActionLog(h) ==
  /\ h.pc = "ua_log"
  /\ interactionLogs' = saveInteractionLog(interactionLogs, h.task)
  /\ Resume(h, [h EXCEPT !.pc = "returned"])
  /\ UNCHANGED <<listenerVars, startup, mirror, pageStats, lastInteraction, pagePreferences, pageFeatures, nextId,
                 restarts, writeFailures>>

\* The awaited storage call or transaction rejects: handleUserAction throws.
UserActionThrows(h) ==
  /\ h.pc \in {"ua_get", "ua_set", "ua_log"}
  /\ Resume(h, [h EXCEPT !.pc = "threw"])
  /\ UNCHANGED <<listenerVars, startup, mirror, pageStats, lastInteraction, pagePreferences, interactionLogs,
                 pageFeatures, nextId, restarts, writeFailures>>

(***************************************************************************)
(* Text.  A text is a sequence of characters, each a string of one         *)
(* character; a character outside ASCII is written as its code point.      *)
(***************************************************************************)
Letters(s) == [i \in 1..Len(s) |-> SubSeq(s, i, i)]

UpperCase == Letters("ABCDEFGHIJKLMNOPQRSTUVWXYZ")
LowerCase == Letters("abcdefghijklmnopqrstuvwxyz")

\* String.prototype.toLowerCase on the characters of the model
LowerOf ==
  [c \in {UpperCase[j] : j \in 1..Len(UpperCase)} |->
     LowerCase[CHOOSE j \in 1..Len(UpperCase) : UpperCase[j] = c]]

toLowerCase(text) ==
  [i \in 1..Len(text) |-> IF text[i] \in DOMAIN LowerOf THEN LowerOf[text[i]] ELSE text[i]]

\* String.prototype.includes
includes(haystack, keyword) ==
  \E i \in 0..(Len(haystack) - Len(keyword)) :
    SubSeq(haystack, i + 1, i + Len(keyword)) = keyword

(***************************************************************************)
(* detectCategoryFromText                                                  *)
(***************************************************************************)
\* Object.keys(CATEGORY_KEYWORDS), in the order of declaration
CATEGORY_NAMES ==
  <<"news", "shopping", "social", "video", "reference", "developer", "entertainment", "finance">>

CATEGORY_KEYWORDS ==
  [news |->
     <<Letters("news"), Letters("breaking"), Letters("press"), Letters("headline"), <<"U+8A18", "U+4E8B">>, <<"U+30CB", "U+30E5", "U+30FC", "U+30B9">>>>,
   shopping |->
     <<Letters("shop"), Letters("cart"), Letters("buy"), Letters("sale"), <<"U+5546", "U+54C1">>, <<"U+8CFC", "U+5165">>, <<"U+901A", "U+8CA9">>>>,
   social |->
     <<Letters("profile"), Letters("followers"), Letters("comment"), Letters("post"), Letters("sns"), <<"U+30BD", "U+30FC", "U+30B7", "U+30E3", "U+30EB">>, Letters("tweet")>>,
   video |->
     <<Letters("video"), Letters("watch"), Letters("stream"), Letters("movie"), <<"U+914D", "U+4FE1">>, <<"U+52D5", "U+753B">>>>,
   reference |->
     <<Letters("wiki"), Letters("reference"), Letters("documentation"), Letters("guide"), Letters("faq"), <<"U+30D8", "U+30EB", "U+30D7">>>>,
   developer |->
     <<Letters("code"), Letters("developer"), Letters("api"), Letters("github"), <<"U+30D7", "U+30ED", "U+30B0", "U+30E9", "U+30DF", "U+30F3", "U+30B0">>, <<"U+6280", "U+8853">>>>,
   entertainment |->
     <<Letters("music"), Letters("game"), Letters("anime"), <<"U+6F2B", "U+753B">>, Letters("entertainment"), <<"U+30E9", "U+30A4", "U+30D6">>>>,
   finance |->
     <<Letters("stock"), Letters("market"), Letters("finance"), Letters("bank"), <<"U+6295", "U+8CC7">>, <<"U+91D1", "U+878D">>>>]

\* the inner loop: the number of keywords of the category that the haystack includes
\* keyword.toLowerCase() of every keyword
LowerKeywords ==
  [category \in DOMAIN CATEGORY_KEYWORDS |->
     [i \in 1..Len(CATEGORY_KEYWORDS[category]) |-> toLowerCase(CATEGORY_KEYWORDS[category][i])]]

countMatches(haystack, category) ==
  Cardinality({i \in 1..Len(CATEGORY_KEYWORDS[category]) :
                 includes(haystack, LowerKeywords[category][i])})

\* the outer loop from category i on, with the values of matchedCategory and maxMatches
RECURSIVE scanCategories(_, _, _, _)
scanCategories(haystack, i, matchedCategory, maxMatches) ==
  IF i > Len(CATEGORY_NAMES) THEN matchedCategory
  ELSE LET matches == countMatches(haystack, CATEGORY_NAMES[i])
       IN  IF matches > maxMatches /\ matches > 0
             THEN scanCategories(haystack, i + 1, CATEGORY_NAMES[i], matches)
             ELSE scanCategories(haystack, i + 1, matchedCategory, maxMatches)

\* the outer loop of the mutant of detectCategoryFromText: matches >= maxMatches
RECURSIVE scanCategories_LastWins(_, _, _, _)
scanCategories_LastWins(haystack, i, matchedCategory, maxMatches) ==
  IF i > Len(CATEGORY_NAMES) THEN matchedCategory
  ELSE LET matches == countMatches(haystack, CATEGORY_NAMES[i])
       IN  IF matches >= maxMatches /\ matches > 0
             THEN scanCategories_LastWins(haystack, i + 1, CATEGORY_NAMES[i], matches)
             ELSE scanCategories_LastWins(haystack, i + 1, matchedCategory, maxMatches)

\* Mutant of detectCategoryFromText: among categories with as many matches
\* the one declared last wins.
detectCategoryFromText_LastWins(title, bodyText) ==
  scanCategories_LastWins(toLowerCase(title \o <<" ">> \o bodyText), 1, "other", 0)

\* function detectCategoryFromText(title, bodyText)
detectCategoryFromText(title, bodyText) ==
  scanCategories(toLowerCase(title \o <<" ">> \o bodyText), 1, "other", 0)

(***************************************************************************)
(* handleHistorySync -> analyzeRecentHistory                               *)
(***************************************************************************)
AllSettled(branches) == \A o \in Origins : branches[o] \in {"none", "done", "failed"}

\* Mutant of joinAnalyses: Promise.all, which settles with the first failure.
joinAnalyses_FailFast(h) ==
  IF AllSettled(h.branches) \/ \E o \in Origins : h.branches[o] = "failed"
    THEN [h EXCEPT !.pc = "returned"]
    ELSE h

\* await Promise.allSettled(analyses): resolves once no analysis is pending.
joinAnalyses(h) == IF AllSettled(h.branches) THEN [h EXCEPT !.pc = "returned"] ELSE h

\* An item of the result of history.search.  The url of the model is the
\* origin of the item's url, "" for an item without url; lastVisitTime is 0
\* where the item has none (item.lastVisitTime || 0); visit tells the visits
\* of one origin apart (history of the run).
HistoryItem(url, lastVisitTime, visit) ==
  [url |-> url, lastVisitTime |-> lastVisitTime, visit |-> visit]

\* no item stored for an origin: domainMap.get(origin) is undefined
NoItem == HistoryItem("", 0, 0)
NoItems == [o \in Origins |-> NoItem]

\* Mutant of buildDomainMap: the last item of an origin replaces the stored one.
RECURSIVE buildDomainMap_LastItem(_, _, _)
buildDomainMap_LastItem(historyItems, i, domainMap) ==
  IF i > Len(historyItems) THEN domainMap
  ELSE LET item == historyItems[i]
       IN  IF item.url = "" THEN buildDomainMap_LastItem(historyItems, i + 1, domainMap)
           ELSE buildDomainMap_LastItem(historyItems, i + 1,
                                        [domainMap EXCEPT ![item.url] = item])

\* the loop over historyItems from item i on: an item replaces the stored one
\* of its origin only with a larger lastVisitTime
RECURSIVE buildDomainMap(_, _, _)
buildDomainMap(historyItems, i, domainMap) ==
  IF i > Len(historyItems) THEN domainMap
  ELSE LET item == historyItems[i]
       IN  IF item.url = "" THEN buildDomainMap(historyItems, i + 1, domainMap)
           ELSE IF domainMap[item.url] = NoItem
                     \/ item.lastVisitTime > domainMap[item.url].lastVisitTime
                  THEN buildDomainMap(historyItems, i + 1,
                                      [domainMap EXCEPT ![item.url] = item])
                  ELSE buildDomainMap(historyItems, i + 1, domainMap)

\* history.search resolves with historyItems; one analyzeHistoryEntry per
\* entry of domainMap starts and is suspended on its fetch.
\* (A rejected search is caught and ends like an empty result.)
HistorySearchFinds(h, historyItems) ==
  /\ h.pc = "hs_search"
  /\ LET domainMap == buildDomainMap(historyItems, 1, NoItems)
     IN  Resume(h, joinAnalyses([h EXCEPT !.pc = "hs_join",
                                          !.found = historyItems,
                                          !.entries = domainMap,
                                          !.branches = [o \in Origins |->
                                             IF domainMap[o] # NoItem
                                               THEN "running" ELSE "none"]]))
  /\ UNCHANGED <<listenerVars, startup, mirror, pageStats, lastInteraction, pagePreferences, interactionLogs,
                 pageFeatures, nextId, restarts, writeFailures>>

\* a history with one visit of each origin of found
RECURSIVE OneVisitOfEach(_)
OneVisitOfEach(found) ==
  IF found = {} THEN <<>>
  ELSE LET o == CHOOSE x \in found : TRUE
       IN  <<HistoryItem(o, 1, 1)>> \o OneVisitOfEach(found \ {o})

HistoryResults == {OneVisitOfEach(found) : found \in SUBSET Origins}

HistorySearch(h) == \E historyItems \in HistoryResults : HistorySearchFinds(h, historyItems)

\* Mutant of sanitizeContextMetrics: one counter that is no finite number
\* resets all four.
sanitizeContextMetrics_AllOrNothing(context) ==
  [k \in ContextKeys |->
     IF context.isObject /\ \A c \in ContextKeys : IsFiniteNumber(context.counters[c])
       THEN context.counters[k]
       ELSE JsNumber(0)]


\* function sanitizeContextMetrics(context)
sanitizeContextMetrics(context) ==
  [k \in ContextKeys |->
     IF context.isObject /\ IsFiniteNumber(context.counters[k])
       THEN context.counters[k]
       ELSE JsNumber(0)]

\* Mutant of savePageFeature: a record whose key is taken is not stored.
savePageFeature_KeepsFirst(store, record) ==
  IF record.id = "" /\ record.source = "history"
       /\ \E r \in store : r.id = <<record.origin, "history", 0>>
    THEN store
    ELSE putRecord(store,
                   [record EXCEPT !.id =
                      IF record.id # "" THEN <<record.id, "supplied", 0>>
                      ELSE IF record.source = "history" THEN <<record.origin, "history", 0>>
                      ELSE <<"", "generated", generateId(store)>>])

\* function savePageFeature(record): id = record.id || (source === 'history'
\* ? `${origin}::history` : generateId()), then store.put
savePageFeature(store, record) ==
  putRecord(store,
            [record EXCEPT !.id =
               IF record.id # "" THEN <<record.id, "supplied", 0>>
               ELSE IF record.source = "history" THEN <<record.origin, "history", 0>>
               ELSE <<"", "generated", generateId(store)>>])

\* What the fetch of analyzeHistoryEntry yields: the title (doc.title ||
\* historyItem.title) and the body text of the parsed document; the body text
\* is empty when the fetch fails or is not ok.
Page(title, bodyText) == [title |-> title, bodyText |-> bodyText]
NoPage == Page(<<>>, <<>>)

\* what classifyHistoryEntryCategory resolves with: a category name, or
\* NoCategory for null (no key stored, request failed, no category parsed)
NoCategory == ""

\* the record's context.lastVisitTime: historyItem.lastVisitTime || Date.now()
Now == 9

\* analyzeHistoryEntry: the record of a history entry, of which the model
\* keeps title, category, textSample and context.lastVisitTime; its context
\* holds none of the four counters.  task is the task whose handler stores
\* the record, visit the visit analysed and classifiedBy the source of the
\* category (history of the run).
historyRecord(historyItem, task, page, aiCategory) ==
  [id |-> "", origin |-> historyItem.url, source |-> "history",
   context |-> [k \in ContextKeys |-> Absent],
   title |-> page.title,
   category |-> IF aiCategory # NoCategory
                  THEN aiCategory
                  ELSE detectCategoryFromText(page.title, page.bodyText),
   textSample |-> truncateText(JsString(page.bodyText), TextSampleLimit).text,
   visualTrend |-> <<>>,
   lastVisitTime |-> IF historyItem.lastVisitTime # 0 THEN historyItem.lastVisitTime ELSE Now,
   visit |-> historyItem.visit,
   classifiedBy |-> IF aiCategory # NoCategory THEN "ai" ELSE "text",
   task |-> task.id]

\* analyzeHistoryEntry runs to its end: the fetch yields page, the
\* classification aiCategory (their failures are caught) and the put of
\* savePageFeature commits.
AnalysisSavedFor(h, o, page, aiCategory) ==
  /\ h.pc = "hs_join"
  /\ h.branches[o] = "running"
  /\ pageFeatures' = savePageFeature(pageFeatures,
                                     historyRecord(h.entries[o], h.task, page, aiCategory))
  /\ Resume(h, joinAnalyses([h EXCEPT !.branches[o] = "done"]))
  /\ UNCHANGED <<listenerVars, startup, mirror, pageStats, lastInteraction, pagePreferences, interactionLogs,
                 nextId, restarts, writeFailures>>

\* the analysis of a page that cannot be fetched, with no key stored
AnalysisSaved(h, o) == AnalysisSavedFor(h, o, NoPage, NoCategory)

\* the transaction of savePageFeature fails: this analysis rejects
AnalysisFails(h, o) ==
  /\ h.pc = "hs_join"
  /\ h.branches[o] = "running"
  /\ Resume(h, joinAnalyses([h EXCEPT !.branches[o] = "failed"]))
  /\ UNCHANGED <<listenerVars, startup, mirror, pageStats, lastInteraction, pagePreferences, interactionLogs,
                 pageFeatures, nextId, restarts, writeFailures>>

(***************************************************************************)
(* handlePageAnalysis                                                      *)
(***************************************************************************)
\* validatePageAnalysisPayload: source: payload.source === 'history' ? 'history' : 'live'
sanitizeSource(source) == IF source = "history" THEN "history" ELSE "live"

\* What runGpt5VisualSummary resolves with.  kind tells why (history of the
\* run): no key is stored, the request fails, the answer holds no text, or
\* the answer holds text.
Enrichment(kind, text) == [kind |-> kind, text |-> text]
NoKey == Enrichment("no key", <<>>)

\* llmSummary?.visualTrend: truncateText(text, 400) of an answer with text,
\* NoSummary where runGpt5VisualSummary returns null
NoSummary == <<>>
visualSummary(enrichment) ==
  IF enrichment.kind = "summary" /\ enrichment.text # <<>>
    THEN truncateText(JsString(enrichment.text), SummaryLimit).text
    ELSE NoSummary

\* Mutant of analysisRecordWith: visualTrend is llmSummary?.visualTrend alone.
analysisRecordWith_SummaryOnly(task, llmSummary) ==
  [id |-> task.payload.id, origin |-> task.payload.url,
   source |-> sanitizeSource(task.payload.source),
   context |-> sanitizeContextMetrics(task.payload.context),
   title |-> <<>>, category |-> "", textSample |-> <<>>,
   visualTrend |-> llmSummary,
   lastVisitTime |-> 0, visit |-> 0, classifiedBy |-> "",
   task |-> task.id]

\* handlePageAnalysis: the record built from the sanitized payload and
\* llmSummary (visualTrend: llmSummary?.visualTrend || sanitized.visualTrend).  task is
\* the task whose handler stores the record (history of the run).
analysisRecordWith(task, llmSummary) ==
  [id |-> task.payload.id, origin |-> task.payload.url,
   source |-> sanitizeSource(task.payload.source),
   context |-> sanitizeContextMetrics(task.payload.context),
   title |-> <<>>, category |-> "", textSample |-> <<>>,
   visualTrend |-> IF llmSummary # NoSummary THEN llmSummary
                                            ELSE task.payload.visualTrend,
   lastVisitTime |-> 0, visit |-> 0, classifiedBy |-> "",
   task |-> task.id]

\* the record when the enrichment yields nothing
analysisRecord(task) == analysisRecordWith(task, NoSummary)

\* loadOpenAiApiKey and, with a key, runGpt5VisualSummary have settled with
\* enrichment (their failures are caught); the handler calls savePageFeature.
PageAnalysisEnriched(h, enrichment) ==
  /\ h.pc = "pa_key"
  /\ Resume(h, [h EXCEPT !.pc = "pa_put",
                         !.enrichment = enrichment.kind,
                         !.summary = visualSummary(enrichment)])
  /\ UNCHANGED <<listenerVars, startup, mirror, pageStats, lastInteraction, pagePreferences, interactionLogs,
                 pageFeatures, nextId, restarts, writeFailures>>

\* the same with no key stored
PageAnalysisKey(h) == PageAnalysisEnriched(h, NoKey)

\* savePageFeature: the put commits and handlePageAnalysis returns.
PageAnalysisSaved(h) ==
  /\ h.pc = "pa_put"
  /\ pageFeatures' = savePageFeature(pageFeatures, analysisRecordWith(h.task, h.summary))
  /\ Resume(h, [h EXCEPT !.pc = "returned"])
  /\ UNCHANGED <<listenerVars, startup, mirror, pageStats, lastInteraction, pagePreferences, interactionLogs,
                 nextId, restarts, writeFailures>>

\* the transaction of savePageFeature fails: handlePageAnalysis throws
PageAnalysisThrows(h) ==
  /\ h.pc = "pa_put"
  /\ Resume(h, [h EXCEPT !.pc = "threw"])
  /\ UNCHANGED <<listenerVars, startup, mirror, pageStats, lastInteraction, pagePreferences, interactionLogs,
                 pageFeatures, nextId, restarts, writeFailures>>

(***************************************************************************)
(* The process is stopped and started again (service worker restart).      *)
(* Memory is lost; a storage write already handed to the browser by a      *)
(* running handler has landed or has not.  The new process issues the get  *)
(* of its startup IIFE.                                                    *)
(***************************************************************************)
Restart ==
  \E landed \in BOOLEAN :
    /\ restarts < MaxRestarts
    /\ restarts' = restarts + 1
    /\ taskQueue' = <<>>
    /\ processing' = FALSE
    /\ handlers' = {}
    /\ startup' = "reading"
    /\ appended' = <<>>
    /\ dispatched' = <<>>
    /\ IF landed /\ \E h \in handlers : h.pc = "ua_set"
         THEN LET h == CHOOSE g \in handlers : g.pc = "ua_set"
              IN /\ pageStats' = h.stats
                 /\ lastInteraction' = h.interactions
                 /\ pagePreferences' = h.preferences
         ELSE UNCHANGED <<pageStats, lastInteraction, pagePreferences>>
    /\ IF landed /\ \E h \in handlers : h.pc = "ua_log"
         THEN LET h == CHOOSE g \in handlers : g.pc = "ua_log"
              IN interactionLogs' = saveInteractionLog(interactionLogs, h.task)
         ELSE UNCHANGED interactionLogs
    /\ IF landed /\ \E h \in handlers : h.pc = "pa_put"
         THEN LET h == CHOOSE g \in handlers : g.pc = "pa_put"
              IN pageFeatures' = savePageFeature(pageFeatures, analysisRecordWith(h.task, h.summary))
         ELSE UNCHANGED pageFeatures
    /\ writes' = Append(writes, GetCall(restarts + 1))
    /\ debugMode' = FALSE
    /\ inbox' = <<StorageCall("get_debug", NoMessage)>>
    /\ responses' = <<>>
    /\ dbPromise' = "unset"
    /\ request' = NoRequest
    /\ opens' = 0
    /\ operations' = <<>>
    /\ UNCHANGED <<mirror, nextId, dispatchLog, failed, writeFailures, debugStored, notified,
                   queries, script, dbVersion, objectStores, contentVars>>

(***************************************************************************)
(* A fetch of analyzeHistoryEntry that never settles: the code sets no     *)
(* timeout, so the analysis stays pending for good.  Only the fair         *)
(* specification needs to tell it from an analysis that is merely slow.    *)
(***************************************************************************)
AnalysisHangs(h, o) ==
  /\ h.pc = "hs_join"
  /\ h.branches[o] = "running"
  /\ Resume(h, [h EXCEPT !.branches[o] = "hung"])
  /\ UNCHANGED <<listenerVars, startup, mirror, pageStats, lastInteraction, pagePreferences, interactionLogs,
                 pageFeatures, nextId, restarts, writeFailures>>

(***************************************************************************)
(* Spec: every event, with restarts and failing storage calls.             *)
(***************************************************************************)
Next ==
  \/ nextId <= MaxTasks /\ OnMessageUserAction
  \/ nextId <= MaxTasks /\ OnMessagePageAnalysis
  \/ nextId <= MaxTasks /\ OnAlarm
  \/ StartupReplay
  \/ StartupReadLost
  \/ MirrorWriteLands
  \/ MirrorWriteFails
  \/ \E h \in handlers : UserActionRead(h)
  \/ \E h \in handlers : UserActionWrite(h)
  \/ \E h \in handlers : UserActionLog(h)
  \/ \E h \in handlers : UserActionThrows(h)
  \/ \E h \in handlers : PageAnalysisKey(h)
  \/ \E h \in handlers : PageAnalysisSaved(h)
  \/ \E h \in handlers : PageAnalysisThrows(h)
  \/ \E h \in handlers : HistorySearch(h)
  \/ \E h \in handlers, o \in Origins : AnalysisSaved(h, o)
  \/ \E h \in handlers, o \in Origins : AnalysisFails(h, o)
  \/ Restart

Spec == Init /\ [][Next]_vars

(***************************************************************************)
(* SpecSteady: one process lifetime in which no storage call fails.        *)
(***************************************************************************)
NextSteady ==
  \/ nextId <= MaxTasks /\ OnMessageUserAction
  \/ nextId <= MaxTasks /\ OnMessagePageAnalysis
  \/ nextId <= MaxTasks /\ OnAlarm
  \/ StartupReplay
  \/ MirrorWriteLands
  \/ \E h \in handlers : UserActionRead(h)
  \/ \E h \in handlers : UserActionWrite(h)
  \/ \E h \in handlers : UserActionLog(h)
  \/ \E h \in handlers : PageAnalysisKey(h)
  \/ \E h \in handlers : PageAnalysisSaved(h)
  \/ \E h \in handlers : HistorySearch(h)
  \/ \E h \in handlers, o \in Origins : AnalysisSaved(h, o)

SpecSteady == Init /\ [][NextSteady]_vars

(***************************************************************************)
(* SpecFair: one process lifetime; every storage call and every request    *)
(* that does not hang settles in the end (the browser answers every call), *)
(* successfully or not.  Messages and alarms need not arrive.              *)
(***************************************************************************)
HandlerStep ==
  \/ \E h \in handlers : UserActionRead(h)
  \/ \E h \in handlers : UserActionWrite(h)
  \/ \E h \in handlers : UserActionLog(h)
  \/ \E h \in handlers : UserActionThrows(h)
  \/ \E h \in handlers : PageAnalysisKey(h)
  \/ \E h \in handlers : PageAnalysisSaved(h)
  \/ \E h \in handlers : PageAnalysisThrows(h)
  \/ \E h \in handlers : HistorySearch(h)
  \/ \E h \in handlers, o \in Origins : AnalysisSaved(h, o)
  \/ \E h \in handlers, o \in Origins : AnalysisFails(h, o)

NextFair ==
  \/ nextId <= MaxFairTasks /\ OnMessageUserAction
  \/ nextId <= MaxFairTasks /\ OnMessagePageAnalysis
  \/ nextId <= MaxFairTasks /\ OnAlarm
  \/ StartupReplay
  \/ MirrorWriteLands
  \/ \E h \in handlers : UserActionRead(h)
  \/ \E h \in handlers : UserActionWrite(h)
  \/ \E h \in handlers : UserActionLog(h)
  \/ \E h \in handlers : UserActionThrows(h)
  \/ \E h \in handlers : PageAnalysisKey(h)
  \/ \E h \in handlers : PageAnalysisSaved(h)
  \/ \E h \in handlers : PageAnalysisThrows(h)
  \/ \E h \in handlers : HistorySearch(h)
  \/ \E h \in handlers, o \in Origins : AnalysisSaved(h, o)
  \/ \E h \in handlers, o \in Origins : AnalysisFails(h, o)
  \/ \E h \in handlers, o \in Origins : AnalysisHangs(h, o)

SpecFair ==
  /\ Init
  /\ [][NextFair]_vars
  /\ WF_vars(StartupReplay)
  /\ WF_vars(MirrorWriteLands)
  /\ WF_vars(HandlerStep)

(***************************************************************************)
(* SpecIngest: what is stored for payloads of every shape.  One process    *)
(* lifetime in which no storage call fails and the messages and alarms     *)
(* come one after another, each when the queue is idle.                    *)
(***************************************************************************)
LongArray == [i \in 1..(MetaArrayLimit + 1) |-> JsString(Chars(MetaItemLimit + 1))]

IngestUserActions ==
  {UserAction("https://a.test", "click",
              Meta([preferredColor |-> Color112233, snippet |-> JsString(Chars(1000))])),
   UserAction("https://a.test", "click",
              Meta([preferredColor |-> JsNumber(7), snippet |-> JsString(Chars(MetaStringLimit))])),
   UserAction("https://a.test", "click",
              Meta([preferredColor |-> JsString(<<>>), snippet |-> JsArray(LongArray)])),
   UserAction("https://a.test", "click",
              Meta([preferredColor |-> Absent, snippet |-> JsArray(<<JsObject, JsNumber(1)>>)])),
   UserAction("https://a.test", "click", NoMeta),
   UserAction("", "click", Meta(NoEntries)),
   UserAction("https://a.test", "", PreferredColor(Color112233)),
   NoPayload}

MixedCounters ==
  [characterCount |-> JsNumber(5), paragraphCount |-> JsNaN,
   headingCount |-> JsString(<<"1", "2">>), imageCount |-> Absent]
OtherCounters ==
  [characterCount |-> JsInfinity, paragraphCount |-> JsNumber(3),
   headingCount |-> JsNumber(0), imageCount |-> JsNull]

IngestPageAnalyses ==
  {PageAnalysis("https://b.test", "live", "", NoContext),
   PageAnalysis("https://a.test", "history", "", Context(MixedCounters)),
   PageAnalysis("https://a.test", "history", "", Context(OtherCounters)),
   PageAnalysis("https://a.test", "history", "x", Context(LiveCounters)),
   PageAnalysis("", "live", "", NoContext)}

Idle == startup = "done" /\ handlers = {} /\ taskQueue = <<>> /\ writes = <<>>

NextIngest ==
  \/ \E payload \in IngestUserActions :
       Idle /\ nextId <= MaxTasks /\ OnMessage("USER_ACTION", payload)
  \/ \E payload \in IngestPageAnalyses :
       Idle /\ nextId <= MaxTasks /\ OnMessage("PAGE_ANALYSIS", payload)
  \/ Idle /\ nextId <= MaxTasks /\ OnAlarm
  \/ StartupReplay
  \/ MirrorWriteLands
  \/ \E h \in handlers : UserActionRead(h)
  \/ \E h \in handlers : UserActionWrite(h)
  \/ \E h \in handlers : UserActionLog(h)
  \/ \E h \in handlers : PageAnalysisKey(h)
  \/ \E h \in handlers : PageAnalysisSaved(h)
  \/ \E h \in handlers : HistorySearch(h)
  \/ \E h \in handlers, o \in Origins : AnalysisSaved(h, o)

SpecIngest == Init /\ [][NextIngest]_vars

(***************************************************************************)
(* SpecAnalysis: what the analyses store.  One process lifetime in which   *)
(* alarms and page analyses come one after another, each when the queue is *)
(* idle, with histories, fetched pages and answers of the enrichment       *)
(* service of every shape; the put of an analysis of a history entry may   *)
(* fail.                                                                   *)
(***************************************************************************)
Words(title, bodyText) == Page(Letters(title), Letters(bodyText))

FetchedPages ==
  {NoPage,
   Words("", "buy a cart"),
   Words("hello", "nothing to see"),
   Words("", "shop news"),
   Words("news", "video to watch"),
   Words("GitHub API", ""),
   Words("", "postcode"),
   Words("stock", "market bank"),
   Page(<<>>, <<"U+52D5", "U+753B">>)}

AiCategories == {NoCategory, "finance"}

\* the fetched pages for which the AI classifier may answer
AiClassifiedPages == {NoPage, Words("", "buy a cart")}

VisitedHistories ==
  {<<>>,
   <<HistoryItem("https://a.test", 2, 1), HistoryItem("", 8, 1),
     HistoryItem("https://a.test", 5, 2), HistoryItem("https://b.test", 1, 1),
     HistoryItem("https://a.test", 3, 3)>>,
   <<HistoryItem("https://a.test", 4, 1), HistoryItem("https://b.test", 1, 1),
     HistoryItem("https://a.test", 4, 2), HistoryItem("", 7, 1)>>,
   <<HistoryItem("https://b.test", 0, 1), HistoryItem("https://b.test", 0, 2),
     HistoryItem("https://a.test", 0, 1), HistoryItem("https://a.test", 6, 2)>>}

Enrichments ==
  {NoKey,
   Enrichment("failed", <<>>),
   Enrichment("empty", <<>>),
   Enrichment("summary", Letters("warm colours")),
   Enrichment("summary", Chars(SummaryLimit + 1))}

TrendedPageAnalyses ==
  {[PageAnalysis("https://b.test", "live", "", Context(LiveCounters))
      EXCEPT !.visualTrend = Letters("calm layout")],
   PageAnalysis("https://a.test", "live", "", NoContext),
   PageAnalysis("", "live", "", NoContext)}

NextAnalysis ==
  \/ Idle /\ nextId <= MaxAnalysisTasks /\ OnAlarm
  \/ \E payload \in TrendedPageAnalyses :
       Idle /\ nextId <= MaxAnalysisTasks /\ OnMessage("PAGE_ANALYSIS", payload)
  \/ StartupReplay
  \/ MirrorWriteLands
  \/ \E h \in handlers, historyItems \in VisitedHistories : HistorySearchFinds(h, historyItems)
  \/ \E h \in handlers, o \in Origins, page \in FetchedPages, aiCategory \in AiCategories :
       /\ aiCategory = NoCategory \/ page \in AiClassifiedPages
       /\ AnalysisSavedFor(h, o, page, aiCategory)
  \/ \E h \in handlers, o \in Origins : AnalysisFails(h, o)
  \/ \E h \in handlers, enrichment \in Enrichments : PageAnalysisEnriched(h, enrichment)
  \/ \E h \in handlers : PageAnalysisSaved(h)

SpecAnalysis == Init /\ [][NextAnalysis]_vars

(***************************************************************************)
(* The messages that leave no task.                                        *)
(***************************************************************************)
coreWorkerVars == <<taskQueue, processing, handlers, startup, mirror, writes, pageStats,
                    lastInteraction, pagePreferences, interactionLogs, pageFeatures, nextId,
                    appended, dispatched, dispatchLog, failed, restarts, writeFailures>>
workerVars == <<coreWorkerVars, otherVars>>

\* Mutant of storedPreference: the entry of whichever origin has one.
storedPreference_AnyOrigin(preferences, pageKey) ==
  IF \E o \in Origins : preferences[o] # NoPreference
    THEN preferences[CHOOSE o \in Origins : preferences[o] # NoPreference]
    ELSE JsNull

\* storage[PAGE_PREFERENCES_KEY][pageKey] || null
storedPreference(preferences, pageKey) ==
  IF preferences[pageKey] # NoPreference THEN preferences[pageKey] ELSE JsNull

\* Mutant of setDebugMode: the logger keeps the flag it has.
setDebugMode_Ignored(current, value) == current

\* logger.setDebugMode(value): the flag after the call
setDebugMode(current, value) == value

\* case 'GET_PERSONALIZATION': the read of the preferences is issued
OnMessageGetPersonalization(url) ==
  /\ inbox' = Append(inbox, StorageCall("get_preferences",
                                        Message("GET_PERSONALIZATION", queries + 1, url, FALSE)))
  /\ queries' = queries + 1
  /\ UNCHANGED <<workerVars, debugMode, debugStored, notified, responses>>

\* the read is served: sendResponse({preferences})
PersonalizationAnswered ==
  /\ inbox # <<>>
  /\ Head(inbox).op = "get_preferences"
  /\ responses' = Append(responses,
                         Response(Head(inbox).message, "",
                                  storedPreference(pagePreferences, Head(inbox).message.url),
                                  Absent))
  /\ inbox' = Tail(inbox)
  /\ UNCHANGED <<workerVars, debugMode, debugStored, notified, queries>>

\* case 'GET_DEBUG_MODE': sendResponse({enabled: logger.isDebugEnabled()})
OnMessageGetDebugMode ==
  /\ responses' = Append(responses,
                         Response(Message("GET_DEBUG_MODE", queries + 1, "", FALSE), "",
                                  Absent, JsBoolean(debugMode)))
  /\ queries' = queries + 1
  /\ UNCHANGED <<workerVars, debugVars>>

\* case 'SET_DEBUG_MODE': setDebugModePreference(Boolean(message.enabled))
\* issues the write; enabled is Boolean(message.enabled)
OnMessageSetDebugMode(enabled) ==
  /\ inbox' = Append(inbox, StorageCall("set_debug",
                                        Message("SET_DEBUG_MODE", queries + 1, "", enabled)))
  /\ queries' = queries + 1
  /\ UNCHANGED <<workerVars, debugMode, debugStored, notified, responses>>

\* the write is served.  Its promise resolves and, when the platform reports
\* the change, storage.onChanged fires; the order of the two is the
\* platform's.  A write of the value already stored is reported by some
\* platforms and not by others.
DebugModeStored(reported, reportedFirst) ==
  /\ inbox # <<>>
  /\ Head(inbox).op = "set_debug"
  /\ LET message == Head(inbox).message
         resolved == StorageCall("set_resolved", message)
         changed == StorageCall("changed", message)
         replies == IF debugStored # JsBoolean(message.enabled) \/ reported
                      THEN IF reportedFirst THEN <<changed, resolved>>
                                            ELSE <<resolved, changed>>
                      ELSE <<resolved>>
     IN  /\ debugStored' = JsBoolean(message.enabled)
         /\ inbox' = replies \o Tail(inbox)
         /\ pageChanges' = IF debugStored # JsBoolean(message.enabled) \/ reported
                             THEN Append(pageChanges, JsBoolean(message.enabled))
                             ELSE pageChanges
  /\ UNCHANGED <<coreWorkerVars, script, databaseVars, debugState, debugIndicator, documentBody,
                 initialized, debugMode, notified, responses, queries>>

\* the await of setDebugModePreference resumes: sendResponse({enabled})
DebugModeAnswered ==
  /\ inbox # <<>>
  /\ Head(inbox).op = "set_resolved"
  /\ responses' = Append(responses,
                         Response(Head(inbox).message, "", Absent,
                                  JsBoolean(Head(inbox).message.enabled)))
  /\ inbox' = Tail(inbox)
  /\ UNCHANGED <<workerVars, debugMode, debugStored, notified, queries>>

\* storage.onChanged listener: logger.setDebugMode(changes[DEBUG_MODE_KEY].newValue)
DebugModeChanged ==
  /\ inbox # <<>>
  /\ Head(inbox).op = "changed"
  /\ debugMode' = setDebugMode(debugMode, Head(inbox).message.enabled)
  /\ notified' = notified \cup {Head(inbox).message.number}
  /\ inbox' = Tail(inbox)
  /\ UNCHANGED <<workerVars, debugStored, responses, queries>>

\* initializeDebugMode: its read settles; a rejected read disables the mode
DebugModeRead(fulfilled) ==
  /\ inbox # <<>>
  /\ Head(inbox).op = "get_debug"
  /\ debugMode' = setDebugMode(debugMode, fulfilled /\ debugStored = JsBoolean(TRUE))
  /\ inbox' = Tail(inbox)
  /\ UNCHANGED <<workerVars, debugStored, notified, responses, queries>>

\* case 'GET_DIAGNOSTICS': buildDiagnosticsSnapshot issues its read
OnMessageGetDiagnostics ==
  /\ inbox' = Append(inbox, StorageCall("get_diagnostics",
                                        Message("GET_DIAGNOSTICS", queries + 1, "", FALSE)))
  /\ queries' = queries + 1
  /\ UNCHANGED <<workerVars, debugMode, debugStored, notified, responses>>

\* buildDiagnosticsSnapshot after its await
buildDiagnosticsSnapshot(queue, isProcessing, isDebug, stats, preferences) ==
  Snapshot(Len(queue), isProcessing, isDebug,
           Cardinality({o \in Origins : stats[o] > 0}),
           Cardinality({o \in Origins : preferences[o] # NoPreference}))

\* the read is served: sendResponse({snapshot})
DiagnosticsAnswered ==
  /\ inbox # <<>>
  /\ Head(inbox).op = "get_diagnostics"
  /\ responses' = Append(responses,
                         SnapshotResponse(Head(inbox).message,
                                          buildDiagnosticsSnapshot(taskQueue, processing,
                                                                   debugMode, pageStats,
                                                                   pagePreferences)))
  /\ inbox' = Tail(inbox)
  /\ UNCHANGED <<workerVars, debugMode, debugStored, notified, queries>>

\* default: logger.warn('Unhandled message type')
OnMessageUnhandled ==
  /\ queries' = queries + 1
  /\ UNCHANGED <<workerVars, debugVars, responses>>

(***************************************************************************)
(* SpecMessages: user actions together with the messages that ask for a    *)
(* personalization or have an unknown type.  One process lifetime in which *)
(* no call on the queue or on the stores fails.  The lifetime may start    *)
(* from a mirror left by an earlier one, which may hold a task of a type   *)
(* this script does not know (the worker of an earlier stage,              *)
(* background.js, knows no PAGE_ANALYSIS; a later one may know more).  User *)
(* actions arrive for one origin and for a url that is no URL and is the   *)
(* name of an inherited property.                                          *)
(***************************************************************************)
MaxMessageTasks == 3
MaxQueries == 1

LegacyTask == Task(0, "LEGACY", UserAction("https://a.test", "click", PreferredColor(Color112233)))

StoredQueues == {<<>>, <<LegacyTask>>}

MessageUserActions ==
  {UserAction("https://a.test", "click", PreferredColor(Color112233)),
   UserAction("constructor", "click", Meta(NoEntries))}

InitMessages ==
  /\ taskQueue = <<>>
  /\ processing = FALSE
  /\ handlers = {}
  /\ startup = "reading"
  /\ mirror \in StoredQueues
  /\ writes = <<GetCall(0)>>
  /\ pageStats = EmptyStats
  /\ lastInteraction = NoInteractions
  /\ pagePreferences = EmptyPreferences
  /\ interactionLogs = {}
  /\ pageFeatures = {}
  /\ nextId = 1
  /\ appended = <<>>
  /\ dispatched = <<>>
  /\ dispatchLog = <<>>
  /\ failed = {}
  /\ restarts = 0
  /\ writeFailures = 0
  /\ debugMode = FALSE
  /\ debugStored = Absent
  /\ inbox = <<StorageCall("get_debug", NoMessage)>>
  /\ responses = <<>>
  /\ notified = {}
  /\ queries = 0
  /\ script = "options"
  /\ DatabaseInPlace
  /\ Unopened
  /\ ContentScriptStarts
  /\ documentBody = TRUE

NextMessages ==
  \/ \E payload \in MessageUserActions :
       nextId <= MaxMessageTasks /\ OnMessage("USER_ACTION", payload)
  \/ \E url \in Origins : queries < MaxQueries /\ OnMessageGetPersonalization(url)
  \/ queries < MaxQueries /\ OnMessageUnhandled
  \/ \E fulfilled \in BOOLEAN : DebugModeRead(fulfilled)
  \/ PersonalizationAnswered
  \/ StartupReplay
  \/ MirrorWriteLands
  \/ \E h \in handlers : UserActionRead(h)
  \/ \E h \in handlers : UserActionWrite(h)
  \/ \E h \in handlers : UserActionLog(h)

SpecMessages == InitMessages /\ [][NextMessages]_vars

(***************************************************************************)
(* SpecDebug: the debug mode.  One process lifetime, which may start from  *)
(* a flag stored by an earlier one, with the messages that read and set    *)
(* the mode; no task arrives.                                              *)
(***************************************************************************)
MaxDebugMessages == 3

InitDebug ==
  /\ taskQueue = <<>>
  /\ processing = FALSE
  /\ handlers = {}
  /\ startup = "reading"
  /\ mirror = <<>>
  /\ writes = <<GetCall(0)>>
  /\ pageStats = EmptyStats
  /\ lastInteraction = NoInteractions
  /\ pagePreferences = EmptyPreferences
  /\ interactionLogs = {}
  /\ pageFeatures = {}
  /\ nextId = 1
  /\ appended = <<>>
  /\ dispatched = <<>>
  /\ dispatchLog = <<>>
  /\ failed = {}
  /\ restarts = 0
  /\ writeFailures = 0
  /\ debugMode = FALSE
  /\ debugStored \in {Absent, JsBoolean(FALSE), JsBoolean(TRUE)}
  /\ inbox = <<StorageCall("get_debug", NoMessage)>>
  /\ responses = <<>>
  /\ notified = {}
  /\ queries = 0
  /\ script = "options"
  /\ DatabaseInPlace
  /\ Unopened
  /\ ContentScriptStarts
  /\ documentBody = TRUE

NextDebug ==
  \/ queries < MaxDebugMessages /\ OnMessageGetDebugMode
  \/ \E enabled \in BOOLEAN : queries < MaxDebugMessages /\ OnMessageSetDebugMode(enabled)
  \/ \E fulfilled \in BOOLEAN : DebugModeRead(fulfilled)
  \/ \E reported, reportedFirst \in BOOLEAN : DebugModeStored(reported, reportedFirst)
  \/ DebugModeAnswered
  \/ DebugModeChanged
  \/ StartupReplay

SpecDebug == InitDebug /\ [][NextDebug]_vars

(***************************************************************************)
(* SpecContent: the content script of one page and the debug mode.  The    *)
(* page asks for the debug mode when it starts; the answer travels back    *)
(* while storage changes are reported to the page.                         *)
(***************************************************************************)
\* function ensureDebugIndicator: the indicator after the call
ensureDebugIndicator(enabled, indicator, body) ==
  IF ~enabled \/ indicator THEN indicator
  ELSE IF ~body THEN FALSE
  ELSE TRUE

\* the answers to GET_DEBUG_MODE given so far, in order
DebugModeAnswers ==
  SelectSeq(responses, LAMBDA r : r.message.type = "GET_DEBUG_MODE")

\* initializeDebugState after its await: the answer to the page's
\* GET_DEBUG_MODE (the first one the worker received) has arrived
InitialDebugStateReceived ==
  /\ initialized = "pending"
  /\ DebugModeAnswers # <<>>
  /\ LET enabled == Truthy(Head(DebugModeAnswers).enabled)
     IN  /\ debugState' = enabled
         /\ debugIndicator' = IF enabled /\ documentBody
                                THEN ensureDebugIndicator(enabled, debugIndicator, documentBody)
                                ELSE debugIndicator
  /\ initialized' = "done"
  /\ UNCHANGED <<coreWorkerVars, coreListenerVars, script, databaseVars, documentBody,
                 pageChanges>>

\* initializeDebugState: sendMessage rejects; the catch only logs
InitialDebugStateFails ==
  /\ initialized = "pending"
  /\ initialized' = "failed"
  /\ UNCHANGED <<coreWorkerVars, coreListenerVars, script, databaseVars, debugState,
                 debugIndicator, documentBody, pageChanges>>

\* the storage.onChanged listener of the content script
PageDebugModeChanged ==
  /\ pageChanges # <<>>
  /\ LET enabled == Truthy(Head(pageChanges))
     IN  /\ debugState' = enabled
         /\ debugIndicator' =
              IF ~enabled /\ debugIndicator THEN FALSE
              ELSE IF enabled /\ documentBody
                THEN ensureDebugIndicator(enabled, debugIndicator, documentBody)
                ELSE debugIndicator
  /\ pageChanges' = Tail(pageChanges)
  /\ UNCHANGED <<coreWorkerVars, coreListenerVars, script, databaseVars, documentBody,
                 initialized>>

\* the DOMContentLoaded listener: if (debugState.enabled) ensureDebugIndicator()
DOMContentLoaded ==
  /\ ~documentBody
  /\ documentBody' = TRUE
  /\ debugIndicator' = IF debugState THEN ensureDebugIndicator(debugState, debugIndicator, TRUE)
                                     ELSE debugIndicator
  /\ UNCHANGED <<coreWorkerVars, coreListenerVars, script, databaseVars, debugState,
                 initialized, pageChanges>>

InitContent ==
  /\ taskQueue = <<>>
  /\ processing = FALSE
  /\ handlers = {}
  /\ startup = "reading"
  /\ mirror = <<>>
  /\ writes = <<GetCall(0)>>
  /\ pageStats = EmptyStats
  /\ lastInteraction = NoInteractions
  /\ pagePreferences = EmptyPreferences
  /\ interactionLogs = {}
  /\ pageFeatures = {}
  /\ nextId = 1
  /\ appended = <<>>
  /\ dispatched = <<>>
  /\ dispatchLog = <<>>
  /\ failed = {}
  /\ restarts = 0
  /\ writeFailures = 0
  /\ debugMode = FALSE
  /\ debugStored \in {Absent, JsBoolean(FALSE), JsBoolean(TRUE)}
  /\ inbox = <<StorageCall("get_debug", NoMessage)>>
  /\ responses = <<>>
  /\ notified = {}
  /\ queries = 0
  /\ script = "options"
  /\ DatabaseInPlace
  /\ Unopened
  /\ ContentScriptStarts
  /\ documentBody \in BOOLEAN

NextContent ==
  \/ queries < MaxDebugMessages /\ OnMessageGetDebugMode
  \/ \E enabled \in BOOLEAN : queries < MaxDebugMessages /\ OnMessageSetDebugMode(enabled)
  \/ \E fulfilled \in BOOLEAN : DebugModeRead(fulfilled)
  \/ \E reported, reportedFirst \in BOOLEAN : DebugModeStored(reported, reportedFirst)
  \/ DebugModeAnswered
  \/ DebugModeChanged
  \/ InitialDebugStateReceived
  \/ InitialDebugStateFails
  \/ PageDebugModeChanged
  \/ DOMContentLoaded

SpecContent == InitContent /\ [][NextContent]_vars

(***************************************************************************)
(* SpecDatabase: the connection to IndexedDB.  The stored database is any  *)
(* of StoredSchemas; operations   call withStore at any time, the open     *)
(* succeeds or fails, and the process may be restarted.                    *)
(***************************************************************************)
MaxOperations == 3

\* a call of withStore: the store it names and where it stands ("waiting" on
\* dbPromise, "done": its transaction completed, "failed": it rejected)
Operation(store, state) == [store |-> store, state |-> state]

\* the schemas a stored database may have
StoredSchemas ==
  {NoStores,
   BothStores,
   [NoStores EXCEPT ![PAGE_FEATURE_STORE] = ObjectStore(PageFeatureIndexes)],
   [BothStores EXCEPT ![INTERACTION_STORE] = ObjectStore({})]}

InitDatabase ==
  /\ taskQueue = <<>>
  /\ processing = FALSE
  /\ handlers = {}
  /\ startup = "reading"
  /\ mirror = <<>>
  /\ writes = <<GetCall(0)>>
  /\ pageStats = EmptyStats
  /\ lastInteraction = NoInteractions
  /\ pagePreferences = EmptyPreferences
  /\ interactionLogs = {}
  /\ pageFeatures = {}
  /\ nextId = 1
  /\ appended = <<>>
  /\ dispatched = <<>>
  /\ dispatchLog = <<>>
  /\ failed = {}
  /\ restarts = 0
  /\ writeFailures = 0
  /\ debugMode = FALSE
  /\ debugStored = Absent
  /\ inbox = <<StorageCall("get_debug", NoMessage)>>
  /\ responses = <<>>
  /\ notified = {}
  /\ queries = 0
  /\ script = "options"
  /\ dbVersion \in {0, DATABASE_VERSION}
  /\ objectStores \in StoredSchemas
  /\ Unopened
  /\ ContentScriptStarts
  /\ documentBody = TRUE

\* withStore(storeName, mode, handler): openDatabase().then(...)
WithStoreCalled(store) ==
  /\ Len(operations) < MaxOperations
  /\ LET opened == openDatabase(dbPromise, opens)
     IN  /\ dbPromise' = opened.dbPromise
         /\ opens' = opened.opens
         /\ request' = IF opened.request THEN OpenRequest("opening", objectStores) ELSE request
  /\ operations' = Append(operations, Operation(store, "waiting"))
  /\ UNCHANGED <<coreWorkerVars, coreListenerVars, script, contentVars, dbVersion, objectStores>>

\* the stored version is lower than DATABASE_VERSION: request.onupgradeneeded
UpgradeNeeded ==
  /\ request.state = "opening"
  /\ dbVersion < DATABASE_VERSION
  /\ request' = OpenRequest("upgraded", onupgradeneeded(request.stores))
  /\ UNCHANGED <<coreWorkerVars, coreListenerVars, script, contentVars, dbVersion, objectStores, dbPromise,
                 opens, operations>>

\* request.onsuccess: the versionchange transaction, if any, has committed;
\* resolve(request.result)
OpenSucceeds ==
  /\ \/ request.state = "opening" /\ dbVersion = DATABASE_VERSION
     \/ request.state = "upgraded"
  /\ objectStores' = request.stores
  /\ dbVersion' = DATABASE_VERSION
  /\ dbPromise' = "fulfilled"
  /\ request' = NoRequest
  /\ UNCHANGED <<coreWorkerVars, coreListenerVars, script, contentVars, opens, operations>>

\* request.onerror: reject(request.error); a versionchange transaction is
\* rolled back
OpenFails ==
  /\ request.state \in {"opening", "upgraded"}
  /\ dbPromise' = "rejected"
  /\ request' = NoRequest
  /\ UNCHANGED <<coreWorkerVars, coreListenerVars, script, contentVars, dbVersion, objectStores, opens,
                 operations>>

\* the then of withStore runs with the connection: db.transaction(storeName)
\* throws for a store the database does not have, else the transaction
\* completes
TransactionRuns(k) ==
  /\ operations[k].state = "waiting"
  /\ dbPromise = "fulfilled"
  /\ operations' = [operations EXCEPT ![k].state =
                      IF objectStores[operations[k].store].exists THEN "done" ELSE "failed"]
  /\ UNCHANGED <<coreWorkerVars, coreListenerVars, script, contentVars, dbVersion, objectStores, dbPromise,
                 request, opens>>

\* the promise of withStore rejects with the error of the open
OperationRejected(k) ==
  /\ operations[k].state = "waiting"
  /\ dbPromise = "rejected"
  /\ operations' = [operations EXCEPT ![k].state = "failed"]
  /\ UNCHANGED <<coreWorkerVars, coreListenerVars, script, contentVars, dbVersion, objectStores, dbPromise,
                 request, opens>>

NextDatabase ==
  \/ \E store \in StoreNames : WithStoreCalled(store)
  \/ UpgradeNeeded
  \/ OpenSucceeds
  \/ OpenFails
  \/ \E k \in 1..Len(operations) : TransactionRuns(k)
  \/ \E k \in 1..Len(operations) : OperationRejected(k)
  \/ Restart

SpecDatabase == InitDatabase /\ [][NextDatabase]_vars

(***************************************************************************)
(* SpecBackground: background.js as the service worker, one process        *)
(* lifetime, alarms only.  Its handleHistorySync reads the queue key and,   *)
(* when the stored queue is not empty, sets it to [].                       *)
(***************************************************************************)
MaxBackgroundTasks == 5
MaxBackgroundWrites == 6

RoomForBackgroundWrites == Cardinality(PendingSets) + 2 <= MaxBackgroundWrites

InitBackground ==
  /\ taskQueue = <<>>
  /\ processing = FALSE
  /\ handlers = {}
  /\ startup = "reading"
  /\ mirror = <<>>
  /\ writes = <<GetCall(0)>>
  /\ pageStats = EmptyStats
  /\ lastInteraction = NoInteractions
  /\ pagePreferences = EmptyPreferences
  /\ interactionLogs = {}
  /\ pageFeatures = {}
  /\ nextId = 1
  /\ appended = <<>>
  /\ dispatched = <<>>
  /\ dispatchLog = <<>>
  /\ failed = {}
  /\ restarts = 0
  /\ writeFailures = 0
  /\ debugMode = FALSE
  /\ debugStored = Absent
  /\ inbox = <<>>
  /\ responses = <<>>
  /\ notified = {}
  /\ queries = 0
  /\ script = "background"
  /\ DatabaseInPlace
  /\ Unopened
  /\ ContentScriptStarts
  /\ documentBody = TRUE

\* handleHistorySync: storage.local.get({queue: []}) resolves; an empty
\* queue returns, otherwise storage.local.set({queue: []}) is issued
BackgroundSyncRead(h) ==
  /\ h.pc = "bg_get"
  /\ writes # <<>>
  /\ Head(writes) = SyncGetCall(h.task.id)
  /\ IF mirror = <<>>
       THEN Commit([QueueState EXCEPT !.writes = Tail(@),
                                      !.handlers = (@ \ {h}) \cup {[h EXCEPT !.pc = "returned"]}])
       ELSE Commit([QueueState EXCEPT !.writes = Append(Tail(@), SyncSetCall(h.task.id)),
                                      !.handlers = (@ \ {h}) \cup {[h EXCEPT !.pc = "bg_set"]}])
  /\ UNCHANGED <<listenerVars, startup, mirror, pageStats, lastInteraction, pagePreferences,
                 interactionLogs, pageFeatures, nextId, restarts, writeFailures>>

\* handleHistorySync: its storage.local.set({queue: []}) resolves
BackgroundSyncWrite(h) ==
  /\ h.pc = "bg_set"
  /\ writes # <<>>
  /\ Head(writes) = SyncSetCall(h.task.id)
  /\ mirror' = <<>>
  /\ Commit([QueueState EXCEPT !.writes = Tail(@),
                               !.handlers = (@ \ {h}) \cup {[h EXCEPT !.pc = "returned"]}])
  /\ UNCHANGED <<listenerVars, startup, pageStats, lastInteraction, pagePreferences,
                 interactionLogs, pageFeatures, nextId, restarts, writeFailures>>

NextBackground ==
  \/ nextId <= MaxBackgroundTasks /\ RoomForBackgroundWrites /\ EnqueueSyncHistory
  \/ StartupReplay
  \/ MirrorWriteLands
  \/ \E h \in handlers : BackgroundSyncRead(h)
  \/ \E h \in handlers : BackgroundSyncWrite(h)

SpecBackground == InitBackground /\ [][NextBackground]_vars

(***************************************************************************)
(* SpecDiagnostics: the queue under every event (restart, throwing         *)
(* handlers) for a few tasks, with messages that ask for the diagnostics   *)
(* snapshot at any time.                                                   *)
(***************************************************************************)
MaxDiagnosticsTasks == 2

NextDiagnostics ==
  \/ nextId <= MaxDiagnosticsTasks /\ OnMessageUserAction
  \/ nextId <= MaxDiagnosticsTasks /\ OnMessagePageAnalysis
  \/ nextId <= MaxDiagnosticsTasks /\ OnAlarm
  \/ queries < MaxQueries /\ OnMessageGetDiagnostics
  \/ \E fulfilled \in BOOLEAN : DebugModeRead(fulfilled)
  \/ DiagnosticsAnswered
  \/ StartupReplay
  \/ MirrorWriteLands
  \/ \E h \in handlers : UserActionRead(h)
  \/ \E h \in handlers : UserActionWrite(h)
  \/ \E h \in handlers : UserActionLog(h)
  \/ \E h \in handlers : UserActionThrows(h)
  \/ \E h \in handlers : PageAnalysisKey(h)
  \/ \E h \in handlers : PageAnalysisSaved(h)
  \/ \E h \in handlers : PageAnalysisThrows(h)
  \/ \E h \in handlers : HistorySearch(h)
  \/ \E h \in handlers, o \in Origins : AnalysisSaved(h, o)
  \/ \E h \in handlers, o \in Origins : AnalysisFails(h, o)
  \/ Restart

SpecDiagnostics == Init /\ [][NextDiagnostics]_vars

(***************************************************************************)
(* Claims                                                                  *)
(***************************************************************************)
IsPrefix(s, q) == Len(s) <= Len(q) /\ \A i \in 1..Len(s) : s[i] = q[i]
IsSuffix(s, q) == \E k \in 0..Len(q) : s = SubSeq(q, k + 1, Len(q))
SameWork(t1, t2) == t1.type = t2.type /\ t1.payload = t2.payload
Ids(seq) == {seq[i].id : i \in 1..Len(seq)}

\* C1: within one process lifetime the tasks are handed to the handlers in
\* exactly the order in which they were pushed on taskQueue (by messages,
\* alarms and the replay): the dispatched tasks are the first pushed ones, in
\* that order, and the queue holds all the others, in that order; nothing is
\* reordered, dropped or merged.
C1_FifoDispatch ==
  /\ IsPrefix(dispatched, appended)
  /\ taskQueue = SubSeq(appended, Len(dispatched) + 1, Len(appended))

\* Two tasks with the same type and payload were replayed after a restart and
\* both were dispatched, one after the other.
C1_Witness ==
  /\ restarts = 1
  /\ Len(dispatched) = 2
  /\ SameWork(dispatched[1], dispatched[2])
  /\ dispatched[1].id # dispatched[2].id

\* C2: single-flight.  At most one handler is in progress in every reachable
\* state, and a turn that pushes tasks while processing is true dequeues
\* nothing and starts no handler.
C2_SingleFlight ==
  /\ [](Cardinality(handlers) <= 1)
  /\ [][(processing /\ restarts' = restarts /\ Len(appended') > Len(appended))
          => /\ dispatched' = dispatched
             /\ handlers' = handlers
             /\ IsPrefix(taskQueue, taskQueue')
             /\ Len(taskQueue') - Len(taskQueue) = Len(appended') - Len(appended)]_vars

\* A handler is suspended and two tasks that arrived meanwhile wait behind it.
C2_Witness ==
  /\ processing
  /\ Cardinality(handlers) = 1
  /\ Len(taskQueue) = 2

Occurrences(seq, x) == Cardinality({i \in 1..Len(seq) : seq[i] = x})

\* C3: at most once across restarts: no task is handed to a handler a second
\* time, whatever happens to the mirror writes and whenever the process is
\* restarted.
C3_AtMostOnce == \A id \in 1..MaxTasks : Occurrences(dispatchLog, id) <= 1

\* C4: every task waiting in taskQueue is in the durable mirror once the
\* outstanding mirror writes have landed (none was rejected), also the tasks
\* pushed by the replay with persist = false.
C4_PendingDurable ==
  (writes = <<>> /\ writeFailures = 0) => Ids(taskQueue) \subseteq Ids(mirror)

NewWrites == {i \in 1..Len(writes') : i > Len(writes)}

\* C5: every mirror write replaces the mirror by the whole in-memory list as
\* it is at the call: the write of enqueueTask holds the list with the new
\* task at its end, the write after a dequeue holds the list without the
\* dequeued tasks.  In a lifetime without restart and without rejected write
\* the mirror equals taskQueue whenever no mirror write is in flight.
C5_MirrorIsSnapshot ==
  /\ [](PendingSets = {} => mirror = taskQueue)
  /\ [](PendingSets # {} => writes[Len(writes)].value = taskQueue)
  /\ [][nextId' # nextId =>
          /\ Len(writes') > Len(writes)
          /\ writes'[Len(writes) + 1].value = Append(taskQueue, appended'[Len(appended')])]_vars
  /\ [][Len(dispatched') > Len(dispatched) =>
          \A i \in 1..Len(dispatched') :
            dispatched'[i].id \notin Ids(writes'[Len(writes')].value)]_vars

\* Two tasks wait behind a running handler and the mirror, with no write in
\* flight, holds exactly these two.
C5_Witness ==
  /\ PendingSets = {}
  /\ Len(taskQueue) = 2
  /\ mirror = taskQueue
  /\ processing

\* C6: a handler that throws does not stop the queue.  In the turn in which a
\* handler throws, its task is dropped: nothing is put (back) into taskQueue
\* and no mirror write holds more than what was waiting; the task waiting at
\* the head, if any, is dispatched in the same turn, and otherwise processing
\* is false again.
C6_ThrowIsDropped ==
  [][failed' # failed =>
       /\ IsSuffix(taskQueue', taskQueue)
       /\ \A i \in NewWrites : IsSuffix(writes'[i].value, taskQueue)
       /\ \A id \in failed' \ failed : \A h \in handlers' : h.task.id # id
       /\ IF taskQueue = <<>>
            THEN ~processing' /\ handlers' = {}
            ELSE /\ Len(dispatched') > Len(dispatched)
                 /\ dispatched'[Len(dispatched) + 1] = Head(taskQueue)]_vars

\* A handler has thrown and the task that waited behind it was dispatched.
C6_Witness ==
  \E i \in 1..Len(dispatched) :
    /\ dispatched[i].id \in failed
    /\ i < Len(dispatched)
    /\ restarts = 0

\* C9: the stored visits counter of an origin never decreases, whatever is
\* processed, fails or is restarted.
C9_VisitsMonotonic ==
  [][\A o \in Origins : pageStats'[o] >= pageStats[o]]_vars

\* Both origins were counted, a handler has thrown and the process was restarted.
C9_Witness ==
  /\ \A o \in Origins : pageStats[o] >= 1
  /\ failed # {}
  /\ restarts = 1

ValidActions(seq, o) ==
  Cardinality({i \in 1..Len(seq) :
                 /\ seq[i].type = "USER_ACTION"
                 /\ validateUserActionPayload(seq[i].payload)
                 /\ seq[i].payload.url = o})

\* C10: when the queue has drained in a lifetime without storage failure, the
\* visits of an origin equal the number of valid UserAction tasks processed
\* for it, and the origin has a preference exactly if that number is at
\* least 3.
C10_VisitsCountActions ==
  (taskQueue = <<>> /\ handlers = {}) =>
     \A o \in Origins :
       /\ pageStats[o] = ValidActions(dispatched, o)
       /\ (pagePreferences[o] # NoPreference) <=> (ValidActions(dispatched, o) >= VisitThreshold)

\* Three clicks on a.test with preferredColor '#112233' were processed.
C10_Witness ==
  /\ taskQueue = <<>>
  /\ handlers = {}
  /\ pageStats["https://a.test"] = 3
  /\ pagePreferences["https://a.test"] = Color112233

AnyHung == \E h \in handlers : \E o \in Origins : h.branches[o] = "hung"

Drained ==
  /\ taskQueue = <<>>
  /\ ~processing
  /\ handlers = {}
  /\ dispatched = appended

\* C7: if one analysis of a SyncHistory task hangs, the SyncHistory task
\* still finishes, and the tasks waiting behind it are dispatched.
C7_HungAnalysisStallsAlone ==
  /\ AnyHung ~> ~AnyHung
  /\ (AnyHung /\ taskQueue # <<>>) ~> (taskQueue = <<>>)

\* C8: drain liveness.  In a lifetime in which no request hangs, every pushed
\* task is dequeued and its handler returns or throws: the system reaches,
\* and once the arrivals have stopped stays in, a state with an empty queue,
\* processing = false, no handler running and every pushed task dispatched.
C8_DrainLiveness == (<>AnyHung) \/ <>[]Drained

\* Two tasks were pushed and both were dispatched, one handler threw and the
\* other returned, and the queue is idle.
C8_Witness ==
  /\ Drained
  /\ Len(appended) = MaxFairTasks
  /\ Cardinality(failed) = 1

\* C11: a preference entry exists for an origin only if the stored visits
\* counter of that origin is at least VisitThreshold.  Counter and entry are
\* written by one storage call, so no stored state shows the entry beside a
\* smaller counter, whatever restarts and failures happen.
C11_PreferenceNeedsVisits ==
  \A o \in Origins : pagePreferences[o] # NoPreference => pageStats[o] >= VisitThreshold

\* an entry has been stored for an origin whose counter is at the threshold
C11_Witness ==
  \E o \in Origins : pagePreferences[o] # NoPreference /\ pageStats[o] = VisitThreshold

\* C12: a preference entry, once stored, is never removed: every step keeps
\* the entry of every origin that has one.  The map is keyed by origin, so an
\* origin has at most one entry and a later action overwrites it.
C12_PreferenceKept ==
  [][\A o \in Origins :
       pagePreferences[o] # NoPreference => pagePreferences'[o] # NoPreference]_vars

\* the entry of an origin has been stored and later overwritten: a fourth
\* processing of an action of the origin, with the entry still there
C12_Witness ==
  \E o \in Origins : pagePreferences[o] # NoPreference /\ pageStats[o] > VisitThreshold

\* the tasks of seq that handleUserAction does not discard, for origin o
ActionsOf(seq, o) ==
  {i \in 1..Len(seq) :
     /\ seq[i].type = "USER_ACTION"
     /\ seq[i].payload.url = o
     /\ seq[i].payload.type # ""}

LastActionOf(seq, o) == seq[CHOOSE i \in ActionsOf(seq, o) : \A j \in ActionsOf(seq, o) : j <= i]

\* the colour the entry shall hold for an action with this meta
IsColorString(v) == v.kind = "string" /\ Len(v.text) > 0
ColorOf(meta) ==
  IF meta.isObject /\ IsColorString(meta.entries["preferredColor"])
    THEN meta.entries["preferredColor"]
    ELSE FallbackColor

\* C13: when all tasks have been processed, the entry of an origin with at
\* least three valid actions holds the colour of the last processed action:
\* its meta.preferredColor if that is a non-empty string, and the fallback
\* colour '#fff6d5' otherwise.
C13_ColorOfLastAction ==
  Idle =>
    \A o \in Origins :
      Cardinality(ActionsOf(dispatched, o)) >= VisitThreshold =>
        pagePreferences[o] = ColorOf(LastActionOf(dispatched, o).payload.meta)

\* the tasks handed to a handler in this step
NewDispatches == {i \in 1..Len(dispatched') : i > Len(dispatched)}

\* a UserAction task whose payload lacks a url or a type
IsDiscarded(task) ==
  task.type = "USER_ACTION" /\ (task.payload.url = "" \/ task.payload.type = "")

\* C14: a UserAction task whose payload has no url or no type ends in the
\* turn that hands it to handleUserAction: it is not among the failed tasks,
\* no handler of it stays suspended, and that turn leaves the visit counters,
\* the last interactions and the preferences as they were and writes no log
\* record for it.
C14_InvalidActionDiscarded ==
  [][\A i \in NewDispatches :
       IsDiscarded(dispatched'[i]) =>
         /\ dispatched'[i].id \notin failed'
         /\ \A h \in handlers' : h.task.id # dispatched'[i].id
         /\ pageStats' = pageStats
         /\ lastInteraction' = lastInteraction
         /\ pagePreferences' = pagePreferences
         /\ \A rec \in interactionLogs' \ interactionLogs : rec.task # dispatched'[i].id]_vars

\* a valid action was processed and then an invalid one, which left the
\* counter of the origin at one and added no log record
C14_Witness ==
  /\ Len(dispatched) = 2
  /\ ~IsDiscarded(dispatched[1]) /\ dispatched[1].type = "USER_ACTION"
  /\ IsDiscarded(dispatched[2])
  /\ dispatched[1].payload.url = dispatched[2].payload.url
  /\ handlers = {} /\ taskQueue = <<>>
  /\ failed = {}
  /\ pageStats[dispatched[1].payload.url] = 1
  /\ Cardinality(interactionLogs) = 1

\* the log records written in this step
NewLogs == interactionLogs' \ interactionLogs

\* C15: the interaction-log table is append-only and every valid UserAction
\* task adds one record.  No step removes or changes a stored log record; a
\* step that stores one stores exactly one, under an id no stored record has;
\* and a step in which handleUserAction returns without a storage failure or
\* restart stores exactly one record for its task.
C15_LogAppendOnly ==
  [][/\ interactionLogs \subseteq interactionLogs'
     /\ Cardinality(NewLogs) <= 1
     /\ \A r \in NewLogs : \A q \in interactionLogs : q.id # r.id
     /\ \A h \in handlers :
          (/\ h.task.type = "USER_ACTION"
           /\ \A g \in handlers' : g.task.id # h.task.id
           /\ h.task.id \notin failed'
           /\ restarts' = restarts)
          => Cardinality({r \in NewLogs : r.task = h.task.id}) = 1]_vars

\* every task of the bound was a valid action and each has its own record
C15_Witness ==
  /\ Cardinality(interactionLogs) = MaxTasks
  /\ Cardinality({r.id : r \in interactionLogs}) = MaxTasks
  /\ Cardinality({r.task : r \in interactionLogs}) = MaxTasks
  /\ handlers = {} /\ taskQueue = <<>>

\* the key savePageFeature derives for a history record of origin o
HistoryId(o) == <<o, "history", 0>>

\* the stored records under the derived history key of origin o
HistoryRecordsOf(store, o) == {r \in store : r.id = HistoryId(o)}

\* the PageAnalysis tasks of seq that call savePageFeature with source
\* history, origin o and no id of their own
HistoryCallsOf(seq, o) ==
  {i \in 1..Len(seq) :
     /\ seq[i].type = "PAGE_ANALYSIS"
     /\ seq[i].payload.url = o
     /\ seq[i].payload.source = "history"
     /\ seq[i].payload.id = ""}

\* the record passed to savePageFeature by the handler of a task for origin o
CallRecord(task, o) ==
  IF task.type = "PAGE_ANALYSIS"
    THEN analysisRecord(task)
    ELSE historyRecord(HistoryItem(o, 1, 1), task, NoPage, NoCategory)

\* C16: calls of savePageFeature with source history, the same origin and no
\* id leave one record for the origin, under a key derived from the origin
\* alone, and the record holds the values of the last call: when all tasks
\* have been processed it is the record of the task that stored it, and no
\* later task called savePageFeature for the origin.
C16_HistoryRecordOverwritten ==
  \A o \in Origins :
    /\ Cardinality(HistoryRecordsOf(pageFeatures, o)) <= 1
    /\ Idle =>
         /\ HistoryCallsOf(dispatched, o) # {} => HistoryRecordsOf(pageFeatures, o) # {}
         /\ \A r \in HistoryRecordsOf(pageFeatures, o) :
              \E k \in 1..Len(dispatched) :
                /\ dispatched[k].id = r.task
                /\ r = [CallRecord(dispatched[k], o) EXCEPT !.id = HistoryId(o)]
                /\ \A i \in HistoryCallsOf(dispatched, o) : i <= k

\* two PageAnalysis tasks with source history and different counters were
\* processed for one origin; the record holds the counters of the second
C16_Witness ==
  /\ Idle
  /\ \E o \in Origins :
       \E i, j \in HistoryCallsOf(dispatched, o) :
         /\ i < j
         /\ analysisRecord(dispatched[i]).context # analysisRecord(dispatched[j]).context
         /\ \A r \in HistoryRecordsOf(pageFeatures, o) :
              r.context = analysisRecord(dispatched[j]).context
         /\ HistoryRecordsOf(pageFeatures, o) # {}

\* C17: the page-feature table holds at most one record with source history
\* for every origin, whatever SyncHistory and PageAnalysis tasks are
\* processed.
C17_OneHistoryRecordPerOrigin ==
  \A o \in Origins :
    Cardinality({r \in pageFeatures : r.source = "history" /\ r.origin = o}) <= 1

\* the counter a stored context shall hold for key k of a received context
CounterOf(context, k) ==
  IF context.isObject /\ context.counters[k].kind = "number" /\ context.counters[k].text = <<>>
    THEN context.counters[k]
    ELSE JsNumber(0)

\* C18: every record stored by a PageAnalysis task has a context with exactly
\* the four counters, and each counter is the payload's value if that is a
\* finite number and 0 otherwise, whatever the other three are; a payload
\* without context gives four zeros.
C18_ContextCounters ==
  \A r \in pageFeatures :
    \A i \in 1..Len(dispatched) :
      (dispatched[i].id = r.task /\ dispatched[i].type = "PAGE_ANALYSIS") =>
        /\ DOMAIN r.context = ContextKeys
        /\ \A k \in ContextKeys :
             r.context[k] = CounterOf(dispatched[i].payload.context, k)

\* a record stored for a payload without context holds four zeros, and one
\* stored for a payload with one finite and three other counters holds the
\* finite one beside three zeros
C18_Witness ==
  /\ \E r \in pageFeatures :
       \E i \in 1..Len(dispatched) :
         /\ dispatched[i].id = r.task
         /\ dispatched[i].payload.context = NoContext
         /\ r.context = [k \in ContextKeys |-> JsNumber(0)]
  /\ \E r \in pageFeatures :
       \E i \in 1..Len(dispatched) :
         /\ dispatched[i].id = r.task
         /\ dispatched[i].payload.context = Context(MixedCounters)
         /\ r.context = [k \in ContextKeys |->
                           IF k = "characterCount" THEN JsNumber(5) ELSE JsNumber(0)]

\* out is what the claim prescribes for truncating the characters s to limit
TruncatedTo(out, s, limit) ==
  IF Len(s) <= limit
    THEN out = s
    ELSE /\ Len(out) = limit
         /\ SubSeq(out, 1, limit - 3) = SubSeq(s, 1, limit - 3)
         /\ SubSeq(out, limit - 2, limit) = <<".", ".", ".">>

\* the meta received with the task that stored log record rec
ReceivedMeta(rec) ==
  (CHOOSE t \in {dispatched[i] : i \in 1..Len(dispatched)} : t.id = rec.task).payload.meta

\* C19: truncateText(s, L) is s when s has at most L characters, and else L
\* characters: the first L-3 of s followed by '...'.  Every string of a
\* received meta is stored truncated to 800 in this way, and every string
\* item of a received array truncated to 200; a string of 1000 characters is
\* stored as 800 characters ending in '...'.
C19_TruncateText ==
  \A rec \in interactionLogs :
    \A k \in MetaKeys :
      LET received == ReceivedMeta(rec).entries[k]
          stored == rec.meta.entries[k]
      IN  /\ received.kind = "string" =>
               /\ stored.kind = "string"
               /\ TruncatedTo(stored.text, received.text, MetaStringLimit)
          /\ received.kind = "array" =>
               \A j \in 1..Len(stored.items) :
                 received.items[j].kind = "string" =>
                   /\ stored.items[j].kind = "string"
                   /\ TruncatedTo(stored.items[j].text, received.items[j].text, MetaItemLimit)

\* a snippet of 1000 characters was stored as 800 characters ending in '...',
\* and one of 800 characters was stored whole
C19_Witness ==
  /\ \E rec \in interactionLogs :
       /\ Len(ReceivedMeta(rec).entries["snippet"].text) = 1000
       /\ Len(rec.meta.entries["snippet"].text) = 800
       /\ SubSeq(rec.meta.entries["snippet"].text, 798, 800) = <<".", ".", ".">>
  /\ \E rec \in interactionLogs :
       /\ Len(ReceivedMeta(rec).entries["snippet"].text) = 800
       /\ rec.meta.entries["snippet"] = ReceivedMeta(rec).entries["snippet"]

\* a string of at most limit characters, a number or a boolean
IsPrimitive(v, limit) ==
  \/ v.kind = "string" /\ Len(v.text) <= limit
  \/ v.kind = "number"
  \/ v.kind = "boolean"

\* the shapes the claim allows for a value of a stored meta map; a key the
\* map does not have holds Absent
IsStorableValue(v) ==
  \/ v = Absent
  \/ IsPrimitive(v, MetaStringLimit)
  \/ /\ v.kind = "array"
     /\ Len(v.items) <= MetaArrayLimit
     /\ \A j \in 1..Len(v.items) : IsPrimitive(v.items[j], MetaItemLimit)

\* C20: every value of the meta map of a stored log record and of a stored
\* last interaction is a string of at most 800 characters, a number, a
\* boolean, or an array of at most 20 primitives (strings of at most 200
\* characters, numbers, booleans); no other shape is stored.
C20_StoredMetaShape ==
  /\ \A rec \in interactionLogs :
       \A k \in MetaKeys : IsStorableValue(rec.meta.entries[k])
  /\ \A o \in Origins :
       lastInteraction[o].isObject =>
         \A k \in MetaKeys : IsStorableValue(lastInteraction[o].entries[k])

\* the number of keywords of category c that the lowered title and text of a
\* stored record include
HitsOf(r, c) == countMatches(toLowerCase(r.title \o <<" ">> \o r.textSample), c)

\* C21: a category found by detectCategoryFromText is the category with the
\* most keyword hits in title and text; among several with the most hits it
\* is the one declared first; without any hit it is 'other'.
C21_CategoryByKeywordHits ==
  \A r \in pageFeatures :
    r.classifiedBy = "text" =>
      IF \A i \in 1..Len(CATEGORY_NAMES) : HitsOf(r, CATEGORY_NAMES[i]) = 0
        THEN r.category = "other"
        ELSE \E i \in 1..Len(CATEGORY_NAMES) :
               /\ r.category = CATEGORY_NAMES[i]
               /\ \A j \in 1..Len(CATEGORY_NAMES) :
                    /\ HitsOf(r, CATEGORY_NAMES[j]) <= HitsOf(r, CATEGORY_NAMES[i])
                    /\ j < i => HitsOf(r, CATEGORY_NAMES[j]) < HitsOf(r, CATEGORY_NAMES[i])

\* a text that hits 'buy' and 'cart' only is stored as shopping, and a text
\* with one hit for news and one for shopping as news
C21_Witness ==
  /\ \E r \in pageFeatures :
       /\ r.classifiedBy = "text"
       /\ r.textSample = Letters("buy a cart")
       /\ HitsOf(r, "shopping") = 2
       /\ r.category = "shopping"
  /\ \E r \in pageFeatures :
       /\ r.classifiedBy = "text"
       /\ r.textSample = Letters("shop news")
       /\ HitsOf(r, "shopping") = 1 /\ HitsOf(r, "news") = 1
       /\ r.category = "news"

\* the analyses of handler h that have not settled
Unsettled(h) == {o \in Origins : h.branches[o] \notin {"none", "done", "failed"}}

\* C22: in a SyncHistory task the failure of the analysis of one origin
\* neither keeps the record of another origin from being stored nor makes
\* the task fail, and the task ends only when every analysis has settled: an
\* analysis that is done has its record stored, a SyncHistory task is never
\* among the failed tasks, and its handler returns only in the step in which
\* the last unsettled analysis settles.
C22_AnalysesIndependent ==
  /\ [](\A h \in handlers : \A o \in Origins :
          h.branches[o] = "done" =>
            \E r \in pageFeatures :
              r.origin = o /\ r.source = "history" /\ r.task = h.task.id)
  /\ [](\A i \in 1..Len(dispatched) :
          dispatched[i].type = "SYNC_HISTORY" => dispatched[i].id \notin failed)
  /\ [][\A h \in handlers :
          (/\ h.task.type = "SYNC_HISTORY"
           /\ \A g \in handlers' : g.task.id # h.task.id)
          => Cardinality(Unsettled(h)) <= 1]_vars

\* a SyncHistory task over both origins has ended without failing; the
\* analysis of a.test failed and the record of b.test is stored
C22_Witness ==
  /\ handlers = {} /\ taskQueue = <<>>
  /\ Len(dispatched) = 1 /\ dispatched[1].type = "SYNC_HISTORY"
  /\ failed = {}
  /\ {r.origin : r \in pageFeatures} = {"https://b.test"}

\* the page-feature records written in this step
NewFeatures == pageFeatures' \ pageFeatures

FetchedOf(h, o) == {i \in 1..Len(h.found) : h.found[i].url = o}

C26_OneEntryPerOrigin ==
  \A h \in handlers :
    h.pc = "hs_join" =>
      \A o \in Origins :
        /\ (h.branches[o] = "none") <=> (FetchedOf(h, o) = {})
        /\ FetchedOf(h, o) # {} =>
             /\ \E i \in FetchedOf(h, o) : h.entries[o] = h.found[i]
             /\ \A i \in FetchedOf(h, o) :
                  h.found[i].lastVisitTime <= h.entries[o].lastVisitTime
        /\ h.branches[o] = "done" =>
             \E r \in pageFeatures :
               /\ r.origin = o /\ r.task = h.task.id
               /\ r.visit = h.entries[o].visit
               /\ \A q \in pageFeatures : q.origin = o /\ q.task = h.task.id => q = r

\* a sync whose fetched entries hold an entry without url and two origins,
\* one of them three times with the latest visit in the middle; the record
\* of that origin is saved while the other analysis is still running
C26_Witness ==
  \E h \in handlers :
    /\ h.pc = "hs_join"
    /\ \E i \in 1..Len(h.found) : h.found[i].url = ""
    /\ \E o \in Origins :
         /\ Cardinality(FetchedOf(h, o)) = 3
         /\ h.branches[o] = "done"
         /\ \E i, j, k \in FetchedOf(h, o) :
              /\ i < j /\ j < k
              /\ h.found[i].lastVisitTime < h.found[j].lastVisitTime
              /\ h.found[k].lastVisitTime < h.found[j].lastVisitTime
              /\ h.entries[o] = h.found[j]
    /\ \E o \in Origins : h.branches[o] = "running"

\* ---------------------------------------------------------------------------
\* C29  Every firing of the 'history-sync' alarm appends one SYNC_HISTORY task
\*      to the queue, also when another SYNC_HISTORY task is pending or being
\*      processed; the tasks are processed one after another: at most one
\*      history sync is in progress, and an alarm that fires during a task
\*      leaves that task alone and queues its own behind the pending ones.
SyncsIn(tasks) == {i \in 1..Len(tasks) : tasks[i].type = "SYNC_HISTORY"}

NewAppended == SubSeq(appended', Len(appended) + 1, Len(appended'))

\* a step in which an event arrives that is not a message carrying a task
AlarmFires ==
  /\ nextId' = nextId + 1
  /\ \A i \in 1..Len(NewAppended) : NewAppended[i].type \notin {"USER_ACTION", "PAGE_ANALYSIS"}

C29_EveryAlarmAppends ==
  /\ [](Cardinality({h \in handlers : h.task.type = "SYNC_HISTORY"}) <= 1)
  /\ [][AlarmFires =>
          /\ IsPrefix(appended, appended')
          /\ NewAppended = <<Task(nextId, "SYNC_HISTORY", NoPayload)>>
          /\ processing =>
               /\ handlers' = handlers
               /\ taskQueue' = Append(taskQueue, Task(nextId, "SYNC_HISTORY", NoPayload))
          /\ ~processing =>
               /\ dispatched' = Append(dispatched, Task(nextId, "SYNC_HISTORY", NoPayload))
               /\ taskQueue' = <<>>]_vars

\* a history sync is in progress, a second one is pending behind it, and a
\* third alarm has queued its task behind that
C29_Witness ==
  /\ \E h \in handlers : h.task.type = "SYNC_HISTORY"
  /\ Len(taskQueue) = 2
  /\ SyncsIn(taskQueue) = {1, 2}
  /\ Len(appended) = 3

\* ---------------------------------------------------------------------------
\* C24  Every RecordUserAction and SubmitPageAnalysis message appends exactly
\*      one task to the queue and is answered exactly once, in the step that
\*      receives it, with {status: 'queued'}: whether or not the payload is
\*      later found invalid, and before the task's handler has completed.  No
\*      other step answers a message that carries a task, so a validation
\*      failure is never reported to the sender.
IsTaskMessage(message) == message.type \in {"USER_ACTION", "PAGE_ANALYSIS"}

AnswersToTasks(answers) == SelectSeq(answers, LAMBDA r : IsTaskMessage(r.message))

MessageArrives == nextId' = nextId + 1 /\ ~AlarmFires

C24_AcknowledgedOnce ==
  /\ [](\A i \in 1..Len(responses) :
          IsTaskMessage(responses[i].message) =>
            /\ responses[i].status = "queued"
            /\ \A j \in 1..Len(responses) :
                 responses[j].message = responses[i].message => j = i)
  /\ [][/\ MessageArrives =>
             /\ Len(appended') = Len(appended) + 1
             /\ IsPrefix(appended, appended')
             /\ LET task == appended'[Len(appended')]
                IN  /\ task.id = nextId
                    /\ IsTaskMessage(task)
                    /\ AnswersToTasks(responses') =
                         Append(AnswersToTasks(responses),
                                [message |-> [type |-> task.type, number |-> task.id,
                                              url |-> task.payload.url, enabled |-> FALSE],
                                 status |-> "queued",
                                 preferences |-> Absent, enabled |-> Absent,
                                 snapshot |-> NoSnapshot])
        /\ ~MessageArrives => AnswersToTasks(responses') = AnswersToTasks(responses)]_vars

\* three messages were answered: the first carried a user action without
\* type, which was taken from the queue and discarded at once; the second a
\* valid user action, whose handler is still waiting for storage; the third
\* a page analysis, which is still in the queue
C24_Witness ==
  /\ Len(responses) = 3
  /\ \A i \in 1..3 : responses[i].status = "queued"
  /\ Len(dispatched) = 2
  /\ dispatched[1].id = responses[1].message.number
  /\ IsDiscarded(dispatched[1])
  /\ \E h \in handlers :
       /\ h.task = dispatched[2]
       /\ h.task.id = responses[2].message.number
       /\ h.pc = "ua_set"
  /\ Len(taskQueue) = 1
  /\ taskQueue[1].id = responses[3].message.number
  /\ taskQueue[1].type = "PAGE_ANALYSIS"
  /\ interactionLogs = {}

\* ---------------------------------------------------------------------------
\* C25  GetPersonalization(url) answers with the PagePreferences entry stored
\*      for the url's origin, or with null when none is stored; neither the
\*      message nor its answer changes the queue or any persisted state.  The
\*      answer reflects only tasks already processed: it is null for an
\*      origin of which fewer than three user actions were handed to a
\*      handler, however many are pending in the queue.
NewResponses == SubSeq(responses', Len(responses) + 1, Len(responses'))

PersonalizationAsked == queries' = queries + 1 /\ Len(inbox') > Len(inbox)

ProcessedActionsOf(o) ==
  {i \in 1..Len(dispatched) :
     /\ dispatched[i].type = "USER_ACTION"
     /\ dispatched[i].payload.url = o
     /\ dispatched[i].payload.type # ""}

C25_PersonalizationReadOnly ==
  [][/\ PersonalizationAsked => UNCHANGED <<workerVars, debugStored, responses>>
     /\ \A i \in 1..Len(NewResponses) :
          NewResponses[i].message.type = "GET_PERSONALIZATION" =>
            LET o == NewResponses[i].message.url
            IN  /\ UNCHANGED <<workerVars, debugStored>>
                /\ NewResponses[i].status = ""
                /\ pagePreferences[o] = NoPreference => NewResponses[i].preferences = JsNull
                /\ pagePreferences[o] # NoPreference =>
                     NewResponses[i].preferences = pagePreferences[o]
                /\ Cardinality(ProcessedActionsOf(o)) < VisitThreshold =>
                     NewResponses[i].preferences = JsNull]_vars

\* the first three user actions of an origin are pending, one with its
\* handler waiting to read the stores and two in the queue, and a request
\* for the personalization of that origin was answered with null
C25_Witness ==
  /\ Len(taskQueue) = 2
  /\ \A i \in 1..2 : taskQueue[i].type = "USER_ACTION" /\ taskQueue[i].payload.url = "https://a.test"
  /\ \E h \in handlers :
       /\ h.task.type = "USER_ACTION" /\ h.task.payload.url = "https://a.test"
       /\ h.pc = "ua_get"
  /\ pageStats["https://a.test"] = 0
  /\ Len(responses) = 4
  /\ responses[4].message.type = "GET_PERSONALIZATION"
  /\ responses[4].message.url = "https://a.test"
  /\ responses[4].preferences = JsNull

\* ---------------------------------------------------------------------------
\* C27  A dequeued task whose type is none of USER_ACTION, SYNC_HISTORY and
\*      PAGE_ANALYSIS is consumed in the step that takes it from the queue:
\*      no handler is left for it, it is not counted as failed, PageStats and
\*      PagePreferences are unchanged, no record is written for it in either
\*      table, and the queue continues with the next task.  A message of
\*      unknown type enqueues nothing and changes nothing.
KnownTypes == {"USER_ACTION", "SYNC_HISTORY", "PAGE_ANALYSIS"}

UnknownMessageArrives ==
  queries' = queries + 1 /\ inbox' = inbox /\ responses' = responses

C27_UnknownKindIgnored ==
  /\ [](\A i \in 1..Len(dispatched) :
          dispatched[i].type \notin KnownTypes =>
            \A r \in interactionLogs \cup pageFeatures : r.task # dispatched[i].id)
  /\ [][/\ \A i \in NewDispatches :
             dispatched'[i].type \notin KnownTypes =>
               /\ \A h \in handlers' : h.task # dispatched'[i]
               /\ dispatched'[i].id \notin failed'
               /\ UNCHANGED <<pageStats, lastInteraction, pagePreferences>>
               /\ handlers = {} => UNCHANGED <<interactionLogs, pageFeatures>>
               /\ taskQueue' # <<>> => processing' /\ handlers' # {}
               /\ i < Len(dispatched') => \E h \in handlers' : h.task = dispatched'[Len(dispatched')]
        /\ UnknownMessageArrives => UNCHANGED <<workerVars, debugVars, responses>>]_vars

\* a task of unknown type was replayed from the mirror behind a user action
\* in progress, was consumed when that action had written its log record,
\* and the queue went on to the next user action; a message of unknown type
\* was received as well
C27_Witness ==
  /\ Len(dispatched) = 3
  /\ dispatched[2].type = "LEGACY"
  /\ \E h \in handlers : h.task = dispatched[3] /\ h.pc = "ua_get"
  /\ {r.task : r \in interactionLogs} = {dispatched[1].id}
  /\ pagePreferences = EmptyPreferences
  /\ queries = 1 /\ inbox = <<>> /\ Len(responses) = 2

\* ---------------------------------------------------------------------------
\* C28  After SetDebugMode(e) has been answered and the storage-change
\*      notification of its write has been delivered, and as long as no later
\*      SetDebugMode has been received, the persisted debug flag is e, the
\*      answer given was {enabled: e}, the logger's flag is e, and a
\*      GetDebugMode received then is answered with {enabled: e}.
IsSetDebugMode(message) == message.type = "SET_DEBUG_MODE"

\* the numbers of the SetDebugMode messages received so far
SetDebugModesReceived ==
  {inbox[i].message.number : i \in {j \in 1..Len(inbox) : IsSetDebugMode(inbox[j].message)}}
    \cup {responses[i].message.number :
            i \in {j \in 1..Len(responses) : IsSetDebugMode(responses[j].message)}}

\* the SetDebugMode messages that are answered, notified and not superseded
SettledSetDebugModes ==
  {responses[i].message :
     i \in {j \in 1..Len(responses) :
              /\ IsSetDebugMode(responses[j].message)
              /\ responses[j].message.number \in notified
              /\ \A n \in SetDebugModesReceived : n <= responses[j].message.number}}

C28_DebugModeRoundTrip ==
  /\ [](\A i \in 1..Len(responses) :
          IsSetDebugMode(responses[i].message) =>
            responses[i].enabled = JsBoolean(responses[i].message.enabled))
  /\ [](\A message \in SettledSetDebugModes :
          /\ debugStored = JsBoolean(message.enabled)
          /\ debugMode = message.enabled)
  /\ [][\A message \in SettledSetDebugModes :
          \A i \in 1..Len(NewResponses) :
            NewResponses[i].message.type = "GET_DEBUG_MODE" =>
              NewResponses[i].enabled = JsBoolean(message.enabled)]_vars

\* SetDebugMode(true) was answered and its change
\* notification delivered, and the GetDebugMode that followed was answered
\* with {enabled: true}
C28_Witness ==
  /\ Len(responses) = 2
  /\ IsSetDebugMode(responses[1].message)
  /\ responses[1].message.enabled = TRUE
  /\ responses[1].message.number \in notified
  /\ responses[2].message.type = "GET_DEBUG_MODE"
  /\ responses[2].message.number = 2
  /\ responses[2].enabled = JsBoolean(TRUE)
  /\ debugStored = JsBoolean(TRUE)
  /\ inbox = <<>>

\* a SetDebugMode(true) that was answered without a change notification
\* (the value was stored already) after the startup read was rejected
DebugModeUnreported ==
  /\ inbox = <<>>
  /\ \E i \in 1..Len(responses) :
       /\ IsSetDebugMode(responses[i].message)
       /\ responses[i].message.enabled = TRUE
       /\ \A n \in SetDebugModesReceived : n <= responses[i].message.number
  /\ debugStored = JsBoolean(TRUE)
  /\ debugMode = FALSE

\* ---------------------------------------------------------------------------
\* C30  handleUserAction appends the interaction log only after the combined
\*      write of stats and preferences has succeeded, and a failed log write
\*      does not roll the visits back: in every reachable state the number of
\*      InteractionLogRecords of an origin is at most PageStats[origin].visits
\*      (no visits where PageStats has no entry for the origin).
LogsOf(o) == {r \in interactionLogs : r.origin = o}

VisitsOf(o) == IF o \in DOMAIN pageStats THEN pageStats[o] ELSE 0

C30_LogsWithinVisits ==
  \A r \in interactionLogs : Cardinality(LogsOf(r.origin)) <= VisitsOf(r.origin)

\* ---------------------------------------------------------------------------
\* C31  Whenever control is back at the event loop, a non-empty taskQueue
\*      implies processing = true, and then a handler is in progress: there is
\*      no idle state with pending tasks.  Hence no diagnostics snapshot
\*      reports queueLength > 0 together with processing = false.
C31_NoIdleBacklog ==
  /\ taskQueue # <<>> => processing /\ handlers # {}
  /\ \A i \in 1..Len(responses) :
       responses[i].message.type = "GET_DIAGNOSTICS" =>
         (responses[i].snapshot.queueLength > 0 => responses[i].snapshot.processing)

\* after a restart the replayed task is in progress, a new task waits in the
\* queue, and a snapshot taken then reports queueLength 1 and processing
C31_Witness ==
  /\ restarts = 1
  /\ Len(taskQueue) = 1
  /\ processing
  /\ Len(dispatched) = 1 /\ dispatched[1].id < taskQueue[1].id
  /\ \E i \in 1..Len(responses) :
       /\ responses[i].message.type = "GET_DIAGNOSTICS"
       /\ responses[i].snapshot.queueLength = 1
       /\ responses[i].snapshot.processing

\* ---------------------------------------------------------------------------
\* C32  After a restart the tasks replayed from the durable mirror are
\*      dispatched before any task enqueued after the restart: when the
\*      startup read resolves with a non-empty mirror, no task has been
\*      dispatched in this lifetime, and the replayed tasks are dispatched
\*      from the head of the queue.
ReplayResolves ==
  /\ startup = "reading"
  /\ startup' = "done"
  /\ mirror # <<>>
  /\ appended' = appended \o mirror

C32_ReplayedFirst ==
  [][ReplayResolves =>
       /\ dispatched = <<>>
       /\ dispatched' = <<Head(mirror)>>
       /\ taskQueue' = Tail(mirror)]_vars

\* ---------------------------------------------------------------------------
\* C33  Handlers touch disjoint state: a step of a USER_ACTION handler leaves
\*      the page-feature records alone; a step of a SYNC_HISTORY or
\*      PAGE_ANALYSIS handler leaves PageStats, PagePreferences and the
\*      interaction logs alone; and the durable queue mirror only ever takes
\*      a value written by persistQueueSnapshot (enqueue and dequeue).
HandlerStepOf(types) ==
  /\ restarts' = restarts
  /\ \E h \in handlers : h.task.type \in types /\ h \notin handlers'

C33_HandlersDisjoint ==
  [][/\ HandlerStepOf({"USER_ACTION"}) => pageFeatures' = pageFeatures
     /\ HandlerStepOf({"SYNC_HISTORY", "PAGE_ANALYSIS"}) =>
          /\ pageStats' = pageStats
          /\ lastInteraction' = lastInteraction
          /\ pagePreferences' = pagePreferences
          /\ interactionLogs' = interactionLogs
     /\ mirror' # mirror => writes # <<>> /\ Head(writes) = SetCall(mirror')]_vars

\* ---------------------------------------------------------------------------
\* C34  Sanitization is idempotent: the meta of every interaction-log record
\*      (sanitized on validation and again on save) equals sanitizeMeta of the
\*      meta received, sanitizing a stored meta again changes nothing, and
\*      truncating a stored string or string item again with the limit that
\*      was applied to it changes nothing.
C34_SanitizeIdempotent ==
  /\ \A rec \in interactionLogs :
       /\ rec.meta = sanitizeMeta(ReceivedMeta(rec))
       /\ sanitizeMeta(rec.meta) = rec.meta
       /\ \A k \in MetaKeys :
            LET stored == rec.meta.entries[k]
            IN  /\ truncateText(stored, MetaStringLimit) = stored
                /\ \A j \in 1..Len(stored.items) :
                     truncateText(stored.items[j], MetaItemLimit) = stored.items[j]
  /\ \A o \in Origins :
       lastInteraction[o].isObject => sanitizeMeta(lastInteraction[o]) = lastInteraction[o]

\* a record whose received array of 21 items of 201 characters was cut to 20
\* items of 200 characters, and a record whose received snippet of 1000
\* characters was cut to 800
C34_Witness ==
  /\ \E rec \in interactionLogs :
       /\ ReceivedMeta(rec).entries["snippet"].kind = "array"
       /\ Len(ReceivedMeta(rec).entries["snippet"].items) = MetaArrayLimit + 1
       /\ Len(rec.meta.entries["snippet"].items) = MetaArrayLimit
       /\ \A j \in 1..MetaArrayLimit :
            /\ Len(ReceivedMeta(rec).entries["snippet"].items[j].text) = MetaItemLimit + 1
            /\ Len(rec.meta.entries["snippet"].items[j].text) = MetaItemLimit
  /\ \E rec \in interactionLogs :
       /\ Len(ReceivedMeta(rec).entries["snippet"].text) > MetaStringLimit
       /\ rec.meta.entries["snippet"] # ReceivedMeta(rec).entries["snippet"]
       /\ rec.meta = sanitizeMeta(ReceivedMeta(rec))

\* ---------------------------------------------------------------------------
\* C35  The schema upgrade is additive and idempotent: run on a database that
\*      already has the page-feature and the interaction-log store it leaves
\*      the schema as it is; run on a database without stores it creates both
\*      stores, each with its four indexes; in every case a store that exists
\*      keeps its indexes, and a second run would change nothing.
UpgradeRuns == request.state = "opening" /\ request'.state = "upgraded"

C35_UpgradeAdditive ==
  [][UpgradeRuns =>
       LET before == request.stores
           after == request'.stores
       IN  /\ (\A n \in StoreNames : before[n].exists) => after = before
           /\ (\A n \in StoreNames : ~before[n].exists) =>
                /\ after[PAGE_FEATURE_STORE] =
                     [exists |-> TRUE,
                      indexes |-> {"byOrigin", "byUrl", "bySource", "byCategory"}]
                /\ after[INTERACTION_STORE] =
                     [exists |-> TRUE,
                      indexes |-> {"byOrigin", "byUrl", "byType", "byTimestamp"}]
           /\ \A n \in StoreNames :
                /\ after[n].exists
                /\ before[n].exists => after[n] = before[n]
           /\ onupgradeneeded(after) = after]_vars

\* the upgrade has run on a database that has both stores, one of them
\* without indexes, and its transaction holds the schema it found
C35_Witness ==
  /\ request.state = "upgraded"
  /\ \A n \in StoreNames : objectStores[n].exists
  /\ objectStores[INTERACTION_STORE].indexes = {}
  /\ request.stores = objectStores

\* ---------------------------------------------------------------------------
\* C36  The database is opened at most once per process lifetime:
\*      indexedDB.open is called only while dbPromise is unset; a caller of
\*      openDatabase that finds the open pending waits on the same promise
\*      and makes no request of its own; and once the open has failed the
\*      promise stays rejected, no new open is attempted and no operation of
\*      that process completes.
C36_OpenedOnce ==
  [][restarts' = restarts =>
       /\ opens' <= 1
       /\ opens' # opens => dbPromise = "unset" /\ dbPromise' = "pending"
       /\ (dbPromise = "pending" /\ Len(operations') > Len(operations)) =>
            /\ dbPromise' = "pending"
            /\ request' = request
            /\ opens' = opens
            /\ operations'[Len(operations')].state = "waiting"
       /\ dbPromise = "rejected" =>
            /\ dbPromise' = "rejected"
            /\ opens' = opens
            /\ request' = NoRequest
            /\ \A k \in 1..Len(operations') : operations'[k].state \in {"waiting", "failed"}]_vars

\* three operations on both stores in one lifetime, one call of
\* indexedDB.open, which failed, and all three operations have failed
C36_Witness ==
  /\ opens = 1
  /\ dbPromise = "rejected"
  /\ Len(operations) = 3
  /\ \A k \in 1..3 : operations[k].state = "failed"
  /\ operations[1].store # operations[2].store

\* ---------------------------------------------------------------------------
\* C37  In the content script the indicator element is attached only while
\*      debugState.enabled is true, whatever the order in which the answer to
\*      the initial GET_DEBUG_MODE and the storage-change events arrive.
C37_IndicatorOnlyWhenEnabled == debugIndicator => debugState

====
